---- MODULE Spec2Model ----
(***************************************************************************)
(* usbtree: USB device discovery and topology reconstruction.              *)
(*                                                                         *)
(* The model follows internal/usb (the linux detector with the libusb and  *)
(* the lsusb backends, the darwin detector with the libusb and the         *)
(* system_profiler backends) and internal/models (USBDevice).              *)
(*                                                                         *)
(* A USBDevice object is a heap cell: dev maps an object identity          *)
(* <<bus, n, kind>> to the object's fields, and Children holds identities  *)
(* (the Go code holds pointers).  Go's iteration over a map visits the     *)
(* keys in an unspecified order; every "for ... range <map>" of the source *)
(* whose body has an order-dependent effect is modelled one iteration per  *)
(* step, the next key being any key not visited yet.                       *)
(***************************************************************************)
EXTENDS Integers, Sequences, FiniteSets, TLC

\* ---------------------------------------------------------------- bounds
MaxBus == 2
MaxAddr == 3
MaxPort == 3
MaxDevices == 3
MaxLines == 3
MaxLevel == 2
MaxControllers == 2
MaxItems == 3

Buses == 1..MaxBus
Addrs == 1..MaxAddr
Keys == Buses \X Addrs

\* ------------------------------------------------------------ helpers
Range(s) == {s[i] : i \in 1..Len(s)}

EmptyMap == [x \in {} |-> 0]

\* m with key k bound to v (Go: m[k] = v)
Put(m, k, v) == [x \in (DOMAIN m) \cup {k} |-> IF x = k THEN v ELSE m[x]]

\* all orders in which the elements of S can be listed
Perms(S) == {s \in [1..Cardinality(S) -> S] : \A a \in S : \E i \in DOMAIN s : s[i] = a}

\* ------------------------------------------------- internal/models
USBDevice(vid, pid, vname, pname, bus, port, addr, speed, class) ==
    [VendorID |-> vid, ProductID |-> pid, VendorName |-> vname,
     ProductName |-> pname, Bus |-> bus, Port |-> port, Address |-> addr,
     Serial |-> "", Speed |-> speed, Class |-> class, SubClass |-> "",
     Protocol |-> "", MaxPower |-> "", Children |-> <<>>]

\* d with the SubClass, Protocol, Serial and MaxPower a backend sets
WithCodes(d, subclass, protocol) ==
    [d EXCEPT !.SubClass = subclass, !.Protocol = protocol]

WithSerialPower(d, serial, maxPower) ==
    [d EXCEPT !.Serial = serial, !.MaxPower = maxPower]

\* AddChild that puts the child in front
AddChild_Prepend(h, parent, child) ==
    [h EXCEPT ![parent].Children = <<child>> \o @]

\* d.Children = append(d.Children, child), on the heap h
AddChild(h, parent, child) ==
    [h EXCEPT ![parent].Children = Append(@, child)]

HasChildren(h, d) == Len(h[d].Children) > 0

\* GetDisplayName that prefers the vendor name
GetDisplayName_VendorFirst(d) ==
    IF d.VendorName # "" THEN d.VendorName
    ELSE IF d.ProductName # "" THEN d.ProductName
    ELSE "Unknown Device"

GetDisplayName(d) ==
    IF d.ProductName # "" THEN d.ProductName
    ELSE IF d.VendorName # "" THEN d.VendorName
    ELSE "Unknown Device"

\* ------------------------------------------------- pure helpers of usb
getUSBVersion(busNum) == IF busNum <= 2 THEN 2 ELSE 3

getDefaultSpeedForBus(busNum) ==
    IF busNum <= 2 THEN "High (480 Mbps)" ELSE "Super (5 Gbps)"

getProductIDForUSBVersion(busNum) == IF busNum <= 2 THEN 2 ELSE 3

RootHubName(busNum) ==
    IF getUSBVersion(busNum) = 2 THEN "USB 2.0 Root Hub" ELSE "USB 3.0 Root Hub"

convertSpeed(speed) ==
    CASE speed = "1.5M" -> "Low (1.5 Mbps)"
      [] speed = "12M" -> "Full (12 Mbps)"
      [] speed = "480M" -> "High (480 Mbps)"
      [] speed = "5000M" -> "Super (5 Gbps)"
      [] speed = "10000M" -> "Super+ (10 Gbps)"
      [] OTHER -> speed

\* the root hub getDevicesViaLibusb synthesizes for a bus
LinuxRootHub(busNum) ==
    WithCodes(
      USBDevice(7531, getProductIDForUSBVersion(busNum), "Linux Foundation",
                RootHubName(busNum), busNum, 0, 1,
                getDefaultSpeedForBus(busNum), "Hub"),
      "00", "00")

DarwinRootHub(busNum) ==
    WithCodes(
      USBDevice(1452, getProductIDForUSBVersion(busNum), "Apple Inc.",
                RootHubName(busNum), busNum, 0, 1,
                getDefaultSpeedForBus(busNum), "Hub"),
      "00", "00")

\* ------------------------------------------------------------- state
VARIABLES
    platform,       \* "linux" or "darwin": which detector the build holds
    pc,             \* position inside GetDevices
    err,            \* the error GetDevices holds or returns
    backends,       \* the backends GetDevices has invoked so far, in order,
                    \* each with the error it returned
    dev,            \* heap of USBDevice objects
    deviceMap,      \* "bus-address" -> device
    rootDevices,    \* "bus-N" -> root hub
    busNumbers,     \* buses seen by getDevicesViaLibusb
    todo,           \* keys the map iteration in progress has not visited
    devices,        \* slice returned by parseLsusbOutput
    nodes,          \* parseLsusbTree: "bus-dev" -> treeNode
    currentBusRoot, \* parseLsusbTree: key of the current root node
    parentStack,    \* parseLsusbTree: keys of the nodes on the stack
    linesRead,      \* parseLsusbTree: lines consumed so far
    dupLines,       \* parseLsusbTree: child lines whose "bus-dev" key was
                    \* in nodes already (history, read by no action)
    result,         \* slice GetDevices returns
    flat,           \* heap and maps when the Reconstructor starts attaching
    call,           \* the function of models, tree or usb applied on its
                    \* own ("" while GetDevices is what runs)
    input,          \* the arguments of that function
    output          \* what it returned

\* the state of GetDevices
detectorVars == <<platform, pc, err, backends, dev, deviceMap, rootDevices,
                  busNumbers, todo, devices, nodes, currentBusRoot,
                  parentStack, linesRead, dupLines, result, flat>>

\* the state of a function applied on its own
callVars == <<call, input, output>>

vars == <<detectorVars, callVars>>

NoError == [msg |-> "", cause |-> ""]
Called(name, e) == [name |-> name, err |-> e]
NoNode == <<0, 0>>
NoFlat == [dev |-> EmptyMap, deviceMap |-> EmptyMap, rootDevices |-> EmptyMap]

\* failures gousb's OpenDevices reports (libusb error names)
LibusbErrors == {"bad access", "no device"}

Init ==
    /\ platform \in {"linux", "darwin"}
    /\ pc = "start"
    /\ err = NoError
    /\ backends = <<>>
    /\ dev = EmptyMap
    /\ deviceMap = EmptyMap
    /\ rootDevices = EmptyMap
    /\ busNumbers = {}
    /\ todo = {}
    /\ devices = <<>>
    /\ nodes = EmptyMap
    /\ currentBusRoot = NoNode
    /\ parentStack = <<>>
    /\ linesRead = 0
    /\ dupLines = 0
    /\ result = <<>>
    /\ flat = NoFlat
    /\ call = ""
    /\ input = <<>>
    /\ output = <<>>

\* ------------------------------------------- getDevicesViaLibusb
\* the error getDevicesViaLibusb returns when OpenDevices fails with c
LinuxLibusbError(c) ==
    IF c = "bad access"
    THEN [msg |-> "permission denied", cause |-> ""]
    ELSE [msg |-> "failed to enumerate devices", cause |-> c]

DarwinLibusbError(c) == [msg |-> "failed to enumerate devices", cause |-> c]

\* the Record built from one gousb descriptor: a host controller that
\* reports no serial number and no configuration power at address 1, a
\* receiver with serial number and 98mA elsewhere
DescDevice(bus, addr, port) ==
    IF addr = 1
    THEN WithCodes(
           USBDevice(7531, getProductIDForUSBVersion(bus), "Linux xhci-hcd",
                     "xHCI Host Controller", bus, port, addr,
                     "High (480 Mbps)", "Hub"),
           "00", "01")
    ELSE WithSerialPower(
           WithCodes(
             USBDevice(1133, 50475, "Logitech", "USB Receiver", bus, port,
                       addr, "Full (12 Mbps)", "HID"),
             "01", "02"),
           "4C3B2A", "98mA")

\* descriptor sets OpenDevices can return: at most MaxDevices devices,
\* one per (bus, address), each with any port
DescSets ==
    UNION {[ks -> 0..MaxPort] :
             ks \in {k \in SUBSET Keys : Cardinality(k) <= MaxDevices}}

getDevicesViaLibusb_OpenFails ==
    /\ pc = "start"
    /\ \E c \in LibusbErrors :
         err' = IF platform = "linux" THEN LinuxLibusbError(c)
                                      ELSE DarwinLibusbError(c)
    /\ backends' = Append(backends, Called("libusb", err'))
    /\ pc' = "libusb_failed"
    /\ UNCHANGED <<platform, dev, deviceMap, rootDevices, busNumbers,
                   todo, devices, nodes, currentBusRoot, parentStack,
                   linesRead, dupLines, result, flat>>
    /\ UNCHANGED callVars

\* OpenDevices succeeds; the loop over the descriptors fills deviceMap
getDevicesViaLibusb_Open ==
    /\ pc = "start"
    /\ \E descs \in DescSets :
         LET ks == DOMAIN descs
             h == [id \in {<<k[1], k[2], "dev">> : k \in ks} |->
                     DescDevice(id[1], id[2], descs[<<id[1], id[2]>>])]
             m == [k \in ks |-> <<k[1], k[2], "dev">>]
         IN /\ dev' = h
            /\ deviceMap' = m
            /\ busNumbers' = {k[1] : k \in ks}
    /\ backends' = Append(backends, Called("libusb", NoError))
    /\ pc' = "roots"
    /\ UNCHANGED <<platform, err, rootDevices, todo, devices, nodes,
                   currentBusRoot, parentStack, linesRead, dupLines, result, flat>>
    /\ UNCHANGED callVars

\* buses that get a synthesized root hub: rootDevices is still empty when
\* the loop runs, so every bus of busNumbers; with no bus at all the fixed
\* default buses (1..2 on linux, 1..4 on darwin)
DefaultBuses == IF platform = "linux" THEN 1..2 ELSE 1..4

RootHubBuses(bn, rd) ==
    LET missing == {b \in bn : b \notin DOMAIN rd}
    IN IF bn = {} THEN DefaultBuses ELSE missing

getDevicesViaLibusb_CreateRootHubs ==
    /\ pc = "roots"
    /\ LET bs == RootHubBuses(busNumbers, rootDevices)
           hub(b) == IF platform = "linux" THEN LinuxRootHub(b)
                                           ELSE DarwinRootHub(b)
           newDev == [id \in {<<b, 1, "root">> : b \in bs} |-> hub(id[1])]
       IN /\ dev' = newDev @@ dev
          /\ rootDevices' = [b \in bs |-> <<b, 1, "root">>] @@ rootDevices
          /\ deviceMap' = [k \in {<<b, 1>> : b \in bs} |-> <<k[1], 1, "root">>]
                            @@ deviceMap
          /\ todo' = DOMAIN deviceMap \cup {<<b, 1>> : b \in bs}
    /\ flat' = [dev |-> dev', deviceMap |-> deviceMap',
                rootDevices |-> rootDevices']
    /\ pc' = "organize"
    /\ UNCHANGED <<platform, err, backends, busNumbers, devices, nodes,
                   currentBusRoot, parentStack, linesRead, dupLines, result>>
    /\ UNCHANGED callVars

\* organizeDevice with the parent looked up by address alone, on bus 1
organizeDevice_AnyBus(h, dm, rd, k) ==
    LET d == dm[k]
        parentKey == <<1, h[d].Port>>
    IN IF h[d].Port > 0
       THEN IF parentKey \in DOMAIN dm
            THEN AddChild(h, dm[parentKey], d)
            ELSE IF h[d].Bus \in DOMAIN rd
                 THEN AddChild(h, rd[h[d].Bus], d)
                 ELSE h
       ELSE h

\* organizeDevice attaching every device with a port to its bus root
organizeDevice_RootOnly(h, dm, rd, k) ==
    LET d == dm[k]
    IN IF h[d].Port > 0 /\ h[d].Bus \in DOMAIN rd
       THEN AddChild(h, rd[h[d].Bus], d)
       ELSE h

\* organizeDevice attaching only to a parent that has no child yet
organizeDevice_FirstOnly(h, dm, rd, k) ==
    LET d == dm[k]
        parentKey == <<h[d].Bus, h[d].Port>>
        parent == IF parentKey \in DOMAIN dm THEN dm[parentKey]
                  ELSE rd[h[d].Bus]
    IN IF h[d].Port > 0 /\ Len(h[parent].Children) = 0
       THEN AddChild(h, parent, d)
       ELSE h

\* one iteration of organizeHierarchy's loop, for the device at key k
organizeDevice(h, dm, rd, k) ==
    LET d == dm[k]
        parentKey == <<h[d].Bus, h[d].Port>>
    IN IF h[d].Port > 0
       THEN IF parentKey \in DOMAIN dm
            THEN AddChild(h, dm[parentKey], d)
            ELSE IF h[d].Bus \in DOMAIN rd
                 THEN AddChild(h, rd[h[d].Bus], d)
                 ELSE h
       ELSE h

organizeHierarchy ==
    /\ pc = "organize"
    /\ \E k \in todo :
         /\ dev' = organizeDevice(dev, deviceMap, rootDevices, k)
         /\ todo' = todo \ {k}
         /\ IF todo' = {}
            THEN /\ pc' = "collect"
            ELSE /\ pc' = pc
    /\ UNCHANGED <<platform, err, backends, deviceMap, rootDevices,
                   busNumbers, devices, nodes, currentBusRoot, parentStack,
                   linesRead, dupLines, result, flat>>
    /\ UNCHANGED callVars

\* "for _, device := range rootDevices { result = append(result, device) }"
\* one iteration per step; visited roots are the ones already in result
getDevicesViaLibusb_Collect ==
    /\ pc = "collect"
    /\ \E b \in DOMAIN rootDevices :
         /\ rootDevices[b] \notin Range(result)
         /\ result' = Append(result, rootDevices[b])
         /\ pc' = IF Len(result') = Cardinality(DOMAIN rootDevices)
                  THEN "done" ELSE pc
    /\ UNCHANGED <<platform, err, backends, dev, deviceMap, rootDevices,
                   busNumbers, todo, devices, nodes, currentBusRoot,
                   parentStack, linesRead, dupLines, flat>>
    /\ UNCHANGED callVars

\* --------------------------------------------------- parseLsusbOutput
\* the Record parseLsusbOutput builds for the lsusb line of (bus, addr):
\* "Bus 001 Device 001: ID 1d6b:0002 Linux Foundation 2.0 root hub" for a
\* root hub, "... ID 046d:c52b Logitech, Inc. Unifying Receiver" otherwise
FlatDevice(bus, addr) ==
    IF addr = 1
    THEN USBDevice(7531, getProductIDForUSBVersion(bus), "Linux Foundation",
                   IF bus <= 2 THEN "2.0 root hub" ELSE "3.0 root hub",
                   bus, 0, addr,
                   IF getProductIDForUSBVersion(bus) = 2
                   THEN "High (480 Mbps)" ELSE "Super (5 Gbps)", "Hub")
    ELSE USBDevice(1133, 50475, "Logitech,", "Inc. Unifying Receiver",
                   bus, 0, addr, "Unknown", "Device")

FlatKeySets == {k \in SUBSET Keys : Cardinality(k) <= MaxDevices}

parseLsusbOutput_Fails ==
    /\ pc = "lsusb"
    /\ err' = [msg |-> "failed to run lsusb", cause |-> "exec"]
    /\ backends' = Append(backends, Called("lsusb", err'))
    /\ pc' = "done"
    /\ UNCHANGED <<platform, dev, deviceMap, rootDevices, busNumbers,
                   todo, devices, nodes, currentBusRoot, parentStack,
                   linesRead, dupLines, result, flat>>
    /\ UNCHANGED callVars

\* lsusb ran: one Record per (bus, address) in the local deviceMap
parseLsusbOutput ==
    /\ pc = "lsusb"
    /\ \E ks \in FlatKeySets :
         /\ dev' = [id \in {<<k[1], k[2], "dev">> : k \in ks} |->
                      FlatDevice(id[1], id[2])]
         /\ deviceMap' = [k \in ks |-> <<k[1], k[2], "dev">>]
         /\ todo' = ks
         /\ pc' = IF ks = {} THEN "tree" ELSE "toslice"
    /\ err' = NoError
    /\ backends' = Append(backends, Called("lsusb", NoError))
    /\ UNCHANGED <<platform, rootDevices, busNumbers, devices, nodes,
                   currentBusRoot, parentStack, linesRead, dupLines, result, flat>>
    /\ UNCHANGED callVars

\* "Convert map to slice": one iteration of the loop over deviceMap
parseLsusbOutput_ToSlice ==
    /\ pc = "toslice"
    /\ \E k \in todo :
         /\ devices' = Append(devices, deviceMap[k])
         /\ todo' = todo \ {k}
         /\ pc' = IF todo' = {} THEN "tree" ELSE pc
    /\ UNCHANGED <<platform, err, backends, dev, deviceMap, rootDevices,
                   busNumbers, nodes, currentBusRoot, parentStack, linesRead, dupLines,
                   result, flat>>
    /\ UNCHANGED callVars

\* ----------------------------------------------------- parseLsusbTree
treeNode(bus, port, devn, speed, parent) ==
    [bus |-> bus, port |-> port, dev |-> devn, speed |-> speed,
     parent |-> parent]

Levels == 0..MaxLevel

\* the root lines: "/:  Bus 00b.Port 001: Dev 001, ..., 5000M" as lsusb -t
\* prints them, and the same line with "Dev 002" (busRe takes any number)
RootLines == [bus : Buses, port : {1}, dev : {1, 2}, speed : {"5000M"}]

\* port and speed token of a child line: "Port 002: Dev n, ..., 480M" for a
\* device on port 2, "Port 001: Dev n, ..." (no speed captured) on port 1
HintPayloads == {[port |-> 2, speed |-> "480M"], [port |-> 1, speed |-> ""]}

\* the child lines: any nesting level, any device number
ChildLines == [level : Levels, payload : HintPayloads, dev : Addrs]

\* "lsusb -t" fails: getDevicesViaLsusb returns the flat list as it is
parseLsusbTree_Fails ==
    /\ pc = "tree"
    /\ linesRead = 0
    /\ result' = devices
    /\ pc' = "done"
    /\ UNCHANGED <<platform, err, backends, dev, deviceMap, rootDevices,
                   busNumbers, todo, devices, nodes, currentBusRoot,
                   parentStack, linesRead, dupLines, flat>>
    /\ UNCHANGED callVars

\* what a "/:" line that matches busRe does to the parser
readRootLine(line) ==
    /\ pc = "tree"
    /\ linesRead < MaxLines
    /\ currentBusRoot' = <<line.bus, line.dev>>
    /\ parentStack' = << <<line.bus, line.dev>> >>
    /\ nodes' = Put(nodes, <<line.bus, line.dev>>,
                    treeNode(line.bus, line.port, line.dev, line.speed,
                             NoNode))
    /\ linesRead' = linesRead + 1
    /\ UNCHANGED <<platform, pc, err, backends, dev, deviceMap, rootDevices,
                   busNumbers, todo, devices, dupLines, result, flat>>

parseLsusbTree_RootLine ==
    /\ \E line \in RootLines : readRootLine(line)
    /\ UNCHANGED callVars

\* the stack after "for len(parentStack) > level { pop }"
Truncate(stack, level) ==
    IF Len(stack) > level THEN SubSeq(stack, 1, level) ELSE stack

\* what a line that contains "Port" and matches portRe, at nesting level
\* line.level, does to the parser
readChildLine(line) ==
    /\ pc = "tree"
    /\ linesRead < MaxLines
    /\ IF currentBusRoot = NoNode
       THEN UNCHANGED <<nodes, parentStack, dupLines>>
       ELSE LET level == line.level
                stack == Truncate(parentStack, level)
                parent == IF Len(stack) > 0 THEN stack[Len(stack)] ELSE NoNode
                nodeKey == <<currentBusRoot[1], line.dev>>
                node == treeNode(currentBusRoot[1], line.payload.port,
                                 line.dev, line.payload.speed, parent)
            IN IF nodeKey \notin DOMAIN nodes
               THEN /\ nodes' = Put(nodes, nodeKey, node)
                    /\ parentStack' =
                         IF level >= Len(stack)
                         THEN Append(stack, nodeKey)
                         ELSE [stack EXCEPT ![level + 1] = nodeKey]
                    /\ dupLines' = dupLines
               ELSE /\ nodes' = nodes
                    /\ parentStack' = stack
                    /\ dupLines' = dupLines + 1
    /\ linesRead' = linesRead + 1
    /\ UNCHANGED <<platform, pc, err, backends, dev, deviceMap,
                   rootDevices, busNumbers, todo, devices, currentBusRoot,
                   result, flat>>

parseLsusbTree_ChildLine ==
    /\ \E line \in ChildLines : readChildLine(line)
    /\ UNCHANGED callVars

\* a line that is neither (or matches neither regexp) is skipped
skipLine ==
    /\ pc = "tree"
    /\ linesRead < MaxLines
    /\ linesRead' = linesRead + 1
    /\ UNCHANGED <<platform, pc, err, backends, dev, deviceMap,
                   rootDevices, busNumbers, todo, devices, nodes,
                   currentBusRoot, parentStack, dupLines, result, flat>>

parseLsusbTree_OtherLine ==
    /\ skipLine
    /\ UNCHANGED callVars

\* end of the output: parseLsusbTree returns nodes, mergeHierarchy is called
parseLsusbTree_Return ==
    /\ pc = "tree"
    /\ pc' = "merge"
    /\ UNCHANGED <<platform, err, backends, dev, deviceMap, rootDevices,
                   busNumbers, todo, devices, nodes, currentBusRoot,
                   parentStack, linesRead, dupLines, result, flat>>
    /\ UNCHANGED callVars

\* ----------------------------------------------------- mergeHierarchy
\* mergeDevice that copies the port and leaves the speed
mergeDevice_KeepSpeed(d, hierarchy) ==
    LET key == <<d.Bus, d.Address>>
    IN IF key \in DOMAIN hierarchy
       THEN [d EXCEPT !.Port = hierarchy[key].port]
       ELSE d

\* the first loop's effect on one device: port and speed from its hint node
mergeDevice(d, hierarchy) ==
    LET key == <<d.Bus, d.Address>>
    IN IF key \in DOMAIN hierarchy
       THEN [d EXCEPT !.Port = hierarchy[key].port,
                      !.Speed = IF hierarchy[key].speed # ""
                                THEN convertSpeed(hierarchy[key].speed)
                                ELSE @]
       ELSE d

\* "Identify root hubs"
IsRootHub(d) == d.Address = 1

\* first loop of mergeHierarchy, over the devices slice
mergeHierarchy_Index ==
    /\ pc = "merge"
    /\ dev' = [id \in DOMAIN dev |->
                 IF id \in Range(devices) THEN mergeDevice(dev[id], nodes)
                                          ELSE dev[id]]
    /\ deviceMap' = [k \in {<<dev[id].Bus, dev[id].Address>> : id \in Range(devices)} |->
                       CHOOSE id \in Range(devices) :
                          <<dev[id].Bus, dev[id].Address>> = k]
    /\ rootDevices' = [b \in {dev[id].Bus : id \in {i \in Range(devices) : IsRootHub(dev[i])}} |->
                         CHOOSE id \in Range(devices) :
                            IsRootHub(dev[id]) /\ dev[id].Bus = b]
    /\ todo' = DOMAIN nodes
    /\ flat' = [dev |-> dev', deviceMap |-> deviceMap',
                rootDevices |-> rootDevices']
    /\ pc' = IF DOMAIN nodes = {} THEN "mcollect" ELSE "build"
    /\ UNCHANGED <<platform, err, backends, busNumbers, devices, nodes,
                   currentBusRoot, parentStack, linesRead, dupLines, result>>
    /\ UNCHANGED callVars

\* mergeNode that attaches the device under its hint parent and under the
\* address-1 device of its bus as well
mergeNode_AlsoRoot(h, dm, hierarchy, key) ==
    LET node == hierarchy[key]
        rootKey == <<key[1], 1>>
    IN IF key \notin DOMAIN dm
       THEN h
       ELSE IF node.parent # NoNode /\ node.parent \in DOMAIN dm
            THEN IF rootKey \in DOMAIN dm /\ rootKey # key
                 THEN AddChild(AddChild(h, dm[node.parent], dm[key]),
                               dm[rootKey], dm[key])
                 ELSE AddChild(h, dm[node.parent], dm[key])
            ELSE h

\* one iteration of "Build device hierarchy based on tree structure"
mergeNode(h, dm, hierarchy, key) ==
    LET node == hierarchy[key]
    IN IF key \notin DOMAIN dm
       THEN h
       ELSE IF node.parent # NoNode /\ node.parent \in DOMAIN dm
            THEN AddChild(h, dm[node.parent], dm[key])
            ELSE h

mergeHierarchy_Build ==
    /\ pc = "build"
    /\ \E key \in todo :
         /\ dev' = mergeNode(dev, deviceMap, nodes, key)
         /\ todo' = todo \ {key}
         /\ pc' = IF todo' = {} THEN "mcollect" ELSE pc
    /\ UNCHANGED <<platform, err, backends, deviceMap, rootDevices,
                   busNumbers, devices, nodes, currentBusRoot, parentStack,
                   linesRead, dupLines, result, flat>>
    /\ UNCHANGED callVars

\* "Return only root devices": one iteration of the loop over rootDevices
mergeHierarchy_Collect ==
    /\ pc = "mcollect"
    /\ Len(result) < Cardinality(DOMAIN rootDevices)
    /\ \E b \in DOMAIN rootDevices :
         /\ rootDevices[b] \notin Range(result)
         /\ result' = Append(result, rootDevices[b])
    /\ UNCHANGED <<platform, pc, err, backends, dev, deviceMap,
                   rootDevices, busNumbers, todo, devices, nodes,
                   currentBusRoot, parentStack, linesRead, dupLines, flat>>
    /\ UNCHANGED callVars

\* every non-root device of the slice appended to its bus root, slice order
RECURSIVE attachToRoots(_, _, _, _)
attachToRoots(h, rd, ds, i) ==
    IF i > Len(ds) THEN h
    ELSE LET d == ds[i]
             h2 == IF h[d].Address # 1 /\ h[d].Bus \in DOMAIN rd
                   THEN AddChild(h, rd[h[d].Bus], d) ELSE h
         IN attachToRoots(h2, rd, ds, i + 1)

\* the loop over rootDevices is finished: the "no hierarchy was built"
\* block runs when result is empty, then mergeHierarchy returns
mergeHierarchy_Return ==
    /\ pc = "mcollect"
    /\ Len(result) = Cardinality(DOMAIN rootDevices)
    /\ IF Len(result) = 0
       THEN LET roots == {id \in Range(devices) : dev[id].Address = 1}
                rd == [b \in {dev[id].Bus : id \in roots} |->
                         CHOOSE id \in roots : dev[id].Bus = b]
            IN /\ rootDevices' = rd
               /\ dev' = attachToRoots(dev, rd, devices, 1)
               /\ \E order \in Perms(DOMAIN rd) :
                    result' = [i \in 1..Len(order) |-> rd[order[i]]]
       ELSE UNCHANGED <<rootDevices, dev, result>>
    /\ pc' = "done"
    /\ UNCHANGED <<platform, err, backends, deviceMap, busNumbers, todo,
                   devices, nodes, currentBusRoot, parentStack, linesRead, dupLines,
                   flat>>
    /\ UNCHANGED callVars

\* --------------------------------------- getDevicesViaSystemProfiler
\* an spUSBDevice is modelled by its _items: the sequence of its nested
\* items; a controller's _items is such a sequence as well.
\* ItemForests(n): the _items lists that hold n items, nested ones included
RECURSIVE ItemForests(_)
ItemForests(n) ==
    IF n = 0 THEN {<<>>}
    ELSE UNION {{<<sub>> \o rest : sub \in ItemForests(k),
                                   rest \in ItemForests(n - 1 - k)} :
                k \in 0..(n - 1)}

\* the SPUSBDataType lists of c controllers that hold n items in all
RECURSIVE ControllersWith(_, _)
ControllersWith(c, n) ==
    IF c = 0 THEN (IF n = 0 THEN {<<>>} ELSE {})
    ELSE UNION {{<<items>> \o rest : items \in ItemForests(k),
                                     rest \in ControllersWith(c - 1, n - k)} :
                k \in 0..n}

ControllerLists ==
    UNION {ControllersWith(c, n) : c \in 0..MaxControllers, n \in 0..MaxItems}

createRootHubFromController(busNumber) ==
    WithCodes(
      USBDevice(1452, 3, "Apple Inc.", "USB 3.1 Bus", busNumber, 0, 1,
                "Unknown", "Hub"),
      "00", "00")

createDeviceFromSystemProfiler(busNumber) ==
    WithSerialPower(
      USBDevice(1452, 620, "Apple Inc.", "Magic Keyboard", busNumber, 0, 0,
                "Full (12 Mbps)", "HID"),
      "F0T1234", "500")

\* processSystemProfilerItems that leaves the nested items out
RECURSIVE processSystemProfilerItems_TopOnly(_, _, _, _)
processSystemProfilerItems_TopOnly(h, items, parent, i) ==
    IF i > Len(items) THEN h
    ELSE LET id == <<parent[1], parent[2] * (MaxItems + 1) + i, "sp">>
             h1 == AddChild((id :> createDeviceFromSystemProfiler(h[parent].Bus)) @@ h,
                            parent, id)
         IN processSystemProfilerItems_TopOnly(h1, items, parent, i + 1)

\* items[i..] of one _items list, created and appended under parent
RECURSIVE processSystemProfilerItems(_, _, _, _)
processSystemProfilerItems(h, items, parent, i) ==
    IF i > Len(items) THEN h
    ELSE LET id == <<parent[1], parent[2] * (MaxItems + 1) + i, "sp">>
             h1 == AddChild((id :> createDeviceFromSystemProfiler(h[parent].Bus)) @@ h,
                            parent, id)
             h2 == processSystemProfilerItems(h1, items[i], id, 1)
         IN processSystemProfilerItems(h2, items, parent, i + 1)

\* the loop over the controllers, from controller number busNumber on
RECURSIVE processControllers(_, _, _)
processControllers(h, controllers, busNumber) ==
    IF busNumber > Len(controllers) THEN h
    ELSE LET rootHub == <<busNumber, 0, "sp">>
             h1 == (rootHub :> createRootHubFromController(busNumber)) @@ h
             h2 == processSystemProfilerItems(h1, controllers[busNumber], rootHub, 1)
         IN processControllers(h2, controllers, busNumber + 1)

getDevicesViaSystemProfiler_Fails ==
    /\ pc = "system_profiler"
    /\ err' = [msg |-> "failed to run system_profiler", cause |-> "exec"]
    /\ backends' = Append(backends, Called("system_profiler", err'))
    /\ pc' = "done"
    /\ UNCHANGED <<platform, dev, deviceMap, rootDevices, busNumbers,
                   todo, devices, nodes, currentBusRoot, parentStack,
                   linesRead, dupLines, result, flat>>
    /\ UNCHANGED callVars

\* system_profiler ran and printed the controllers
readControllers(controllers) ==
    /\ pc = "system_profiler"
    /\ dev' = processControllers(EmptyMap, controllers, 1)
    /\ result' = [b \in 1..Len(controllers) |-> <<b, 0, "sp">>]
    /\ err' = NoError
    /\ backends' = Append(backends, Called("system_profiler", NoError))
    /\ pc' = "done"
    /\ UNCHANGED <<platform, deviceMap, rootDevices, busNumbers, todo,
                   devices, nodes, currentBusRoot, parentStack, linesRead, dupLines,
                   flat>>

getDevicesViaSystemProfiler ==
    /\ \E controllers \in ControllerLists : readControllers(controllers)
    /\ UNCHANGED callVars

\* ------------------------------------------------------- GetDevices
\* every failure taken for a permission failure
IsPermissionError_Always(e) == e.msg # ""

\* strings.Contains(err.Error(), "permission denied") ||
\* strings.Contains(err.Error(), "bad access")
IsPermissionError(e) == e.msg = "permission denied" \/ e.cause = "bad access"

\* linux: the first backend failed
LinuxGetDevices_Fallback ==
    /\ platform = "linux"
    /\ pc = "libusb_failed"
    /\ pc' = IF IsPermissionError(err) THEN "lsusb" ELSE "done"
    /\ UNCHANGED <<platform, err, backends, dev, deviceMap, rootDevices,
                   busNumbers, todo, devices, nodes, currentBusRoot,
                   parentStack, linesRead, dupLines, result, flat>>
    /\ UNCHANGED callVars

\* darwin GetDevices that returns the failure of libusb
DarwinGetDevices_NoFallback ==
    /\ platform = "darwin"
    /\ pc = "libusb_failed"
    /\ pc' = "done"
    /\ UNCHANGED <<platform, err, backends, dev, deviceMap, rootDevices,
                   busNumbers, todo, devices, nodes, currentBusRoot,
                   parentStack, linesRead, dupLines, result, flat>>
    /\ UNCHANGED callVars

\* darwin: "If libusb fails, try system_profiler"
DarwinGetDevices_Fallback ==
    /\ platform = "darwin"
    /\ pc = "libusb_failed"
    /\ pc' = "system_profiler"
    /\ UNCHANGED <<platform, err, backends, dev, deviceMap, rootDevices,
                   busNumbers, todo, devices, nodes, currentBusRoot,
                   parentStack, linesRead, dupLines, result, flat>>
    /\ UNCHANGED callVars

Next ==
    \/ getDevicesViaLibusb_OpenFails
    \/ getDevicesViaLibusb_Open
    \/ getDevicesViaLibusb_CreateRootHubs
    \/ organizeHierarchy
    \/ getDevicesViaLibusb_Collect
    \/ LinuxGetDevices_Fallback
    \/ DarwinGetDevices_Fallback
    \/ parseLsusbOutput_Fails
    \/ parseLsusbOutput
    \/ parseLsusbOutput_ToSlice
    \/ parseLsusbTree_Fails
    \/ parseLsusbTree_RootLine
    \/ parseLsusbTree_ChildLine
    \/ parseLsusbTree_OtherLine
    \/ parseLsusbTree_Return
    \/ mergeHierarchy_Index
    \/ mergeHierarchy_Build
    \/ mergeHierarchy_Collect
    \/ mergeHierarchy_Return
    \/ getDevicesViaSystemProfiler_Fails
    \/ getDevicesViaSystemProfiler

Spec == Init /\ [][Next]_vars

\* ------------------------------------------------------ Go strings
\* a Go string is the sequence of its characters
UpperCase == <<"A", "B", "C", "D", "E", "F", "G", "H", "I", "J", "K", "L", "M", "N", "O", "P", "Q", "R", "S", "T", "U", "V", "W", "X", "Y", "Z">>
LowerCase == <<"a", "b", "c", "d", "e", "f", "g", "h", "i", "j", "k", "l", "m", "n", "o", "p", "q", "r", "s", "t", "u", "v", "w", "x", "y", "z">>

\* strings.ToLower
ToLower(s) ==
    [i \in DOMAIN s |->
       IF \E j \in DOMAIN UpperCase : UpperCase[j] = s[i]
       THEN LowerCase[CHOOSE j \in DOMAIN UpperCase : UpperCase[j] = s[i]]
       ELSE s[i]]

\* strings.HasPrefix
HasPrefix(s, prefix) ==
    Len(s) >= Len(prefix) /\ SubSeq(s, 1, Len(prefix)) = prefix

\* strings.TrimPrefix
TrimPrefix(s, prefix) ==
    IF HasPrefix(s, prefix) THEN SubSeq(s, Len(prefix) + 1, Len(s)) ELSE s

\* strings.Contains
Contains(s, substr) ==
    \E i \in 1..(Len(s) - Len(substr) + 1) :
      SubSeq(s, i, i + Len(substr) - 1) = substr

\* strings.TrimSpace (the white space of these strings is the blank)
TrimSpace(s) ==
    LET inked == {i \in DOMAIN s : s[i] # " "}
    IN IF inked = {} THEN <<>>
       ELSE SubSeq(s, CHOOSE i \in inked : \A j \in inked : i <= j,
                      CHOOSE i \in inked : \A j \in inked : j <= i)

\* strings.SplitN(s, " ", 2), for a non-empty s
SplitN2(s) ==
    LET blanks == {i \in DOMAIN s : s[i] = " "}
    IN IF blanks = {} THEN <<s>>
       ELSE LET cut == CHOOSE i \in blanks : \A j \in blanks : i <= j
            IN <<SubSeq(s, 1, cut - 1), SubSeq(s, cut + 1, Len(s))>>

Digits == <<"0", "1", "2", "3", "4", "5", "6", "7", "8", "9", "a", "b", "c", "d", "e", "f">>

DigitValue(c) == (CHOOSE j \in DOMAIN Digits : Digits[j] = c) - 1

\* strconv.Atoi and strconv.ParseUint(s, 16, 16) of a string of digits
RECURSIVE ParseNumber(_, _)
ParseNumber(s, base) ==
    IF s = <<>> THEN 0
    ELSE ParseNumber(SubSeq(s, 1, Len(s) - 1), base) * base
           + DigitValue(s[Len(s)])

\* --------------------------------------------------- parseLsusbOutput
\* the vendor names the flat-list adapter knows to contain blanks, in the
\* order it tests them
KnownVendors == <<
    <<"L", "i", "n", "u", "x", " ", "F", "o", "u", "n", "d", "a", "t", "i", "o", "n">>,
    <<"V", "I", "A", " ", "L", "a", "b", "s", ",", " ", "I", "n", "c", ".">>,
    <<"T", "e", "r", "m", "i", "n", "u", "s", " ", "T", "e", "c", "h", "n", "o", "l", "o", "g", "y", " ", "I", "n", "c", ".">>,
    <<"A", "n", "k", "e", "r", " ", "I", "n", "n", "o", "v", "a", "t", "i", "o", "n", "s", " ", "L", "i", "m", "i", "t", "e", "d", ".">>,
    <<"V", "a", "l", "v", "e", " ", "S", "o", "f", "t", "w", "a", "r", "e">>,
    <<"A", "S", "I", "X", " ", "E", "l", "e", "c", "t", "r", "o", "n", "i", "c", "s", " ", "C", "o", "r", "p", ".">>,
    <<"I", "n", "t", "e", "l", " ", "C", "o", "r", "p", ".">>,
    <<"M", "i", "c", "r", "o", " ", "S", "t", "a", "r", " ", "I", "n", "t", "e", "r", "n", "a", "t", "i", "o", "n", "a", "l">>,
    <<"G", "e", "n", "e", "s", "y", "s", " ", "L", "o", "g", "i", "c", ",", " ", "I", "n", "c", ".">>,
    <<"S", "t", "e", "e", "l", "S", "e", "r", "i", "e", "s", " ", "A", "p", "S">>,
    <<"K", "Y", "E", " ", "S", "y", "s", "t", "e", "m", "s", " ", "C", "o", "r", "p", ".">> >>

\* "Parse manufacturer and product from description": <<vendorName,
\* productName>> from vendor number i of the table on
RECURSIVE splitDescription(_, _)
splitDescription(description, i) ==
    IF description = <<>> THEN << <<>>, <<>> >>
    ELSE IF i > Len(KnownVendors)
    THEN LET parts == SplitN2(description)
         IN <<parts[1], IF Len(parts) > 1 THEN parts[2] ELSE <<>> >>
    ELSE IF HasPrefix(description, KnownVendors[i])
    THEN <<KnownVendors[i],
           TrimPrefix(description, KnownVendors[i] \o <<" ">>)>>
    ELSE splitDescription(description, i + 1)

\* "Determine class based on known patterns" (flat-list adapter)
lsusbClass(productName) ==
    LET productLower == ToLower(productName)
    IN IF Contains(productLower, <<"h", "u", "b">>)
       THEN "Hub"
       ELSE IF Contains(productLower, <<"k", "e", "y", "b", "o", "a", "r", "d">>)
          \/ Contains(productLower, <<"m", "o", "u", "s", "e">>)
       THEN "HID"
       ELSE IF Contains(productLower, <<"c", "a", "m", "e", "r", "a">>)
       THEN "Video"
       ELSE IF Contains(productLower, <<"a", "u", "d", "i", "o">>)
          \/ Contains(productLower, <<"h", "e", "a", "d", "s", "e", "t">>)
          \/ Contains(productLower, <<"a", "r", "c", "t", "i", "s">>)
       THEN "Audio"
       ELSE IF Contains(productLower, <<"e", "t", "h", "e", "r", "n", "e", "t">>)
          \/ Contains(productLower, <<"a", "x", "8", "8", "1", "7", "9">>)
       THEN "Communications"
       ELSE IF Contains(productLower, <<"b", "l", "u", "e", "t", "o", "o", "t", "h">>)
          \/ Contains(productLower, <<"a", "x", "2", "0", "0">>)
       THEN "Wireless"
       ELSE IF Contains(productLower, <<"c", "o", "n", "t", "r", "o", "l", "l", "e", "r">>)
       THEN "HID"
       ELSE IF Contains(productLower, <<"j", "t", "a", "g">>)
          \/ Contains(productLower, <<"s", "e", "r", "i", "a", "l">>)
       THEN "Communications"
       ELSE "Device"

\* "Determine class based on product name" (system_profiler adapter)
systemProfilerClass(name) ==
    LET productLower == ToLower(name)
    IN IF Contains(productLower, <<"h", "u", "b">>)
       THEN "Hub"
       ELSE IF Contains(productLower, <<"k", "e", "y", "b", "o", "a", "r", "d">>)
          \/ Contains(productLower, <<"m", "o", "u", "s", "e">>)
          \/ Contains(productLower, <<"t", "r", "a", "c", "k", "p", "a", "d">>)
       THEN "HID"
       ELSE IF Contains(productLower, <<"c", "a", "m", "e", "r", "a">>)
          \/ Contains(productLower, <<"f", "a", "c", "e", "t", "i", "m", "e">>)
       THEN "Video"
       ELSE IF Contains(productLower, <<"a", "u", "d", "i", "o">>)
          \/ Contains(productLower, <<"h", "e", "a", "d", "p", "h", "o", "n", "e">>)
          \/ Contains(productLower, <<"s", "p", "e", "a", "k", "e", "r">>)
       THEN "Audio"
       ELSE IF Contains(productLower, <<"e", "t", "h", "e", "r", "n", "e", "t">>)
          \/ Contains(productLower, <<"n", "e", "t", "w", "o", "r", "k">>)
       THEN "Communications"
       ELSE IF Contains(productLower, <<"b", "l", "u", "e", "t", "o", "o", "t", "h">>)
       THEN "Wireless"
       ELSE IF Contains(productLower, <<"s", "t", "o", "r", "a", "g", "e">>)
          \/ Contains(productLower, <<"d", "i", "s", "k">>)
       THEN "Mass Storage"
       ELSE "Device"

\* one line of lsusb that matches the "Bus XXX Device YYY: ID VVVV:PPPP ..."
\* pattern, by its groups: line.bus, line.device, line.vid, line.pid and
\* line.rest, the text behind the IDs
lsusbRecord(line) ==
    LET bus == ParseNumber(line.bus, 10)
        address == ParseNumber(line.device, 10)
        vendorID == ParseNumber(line.vid, 16)
        productID == ParseNumber(line.pid, 16)
        names == splitDescription(TrimSpace(line.rest), 1)
    IN USBDevice(vendorID, productID, names[1], names[2], bus, 0, address,
                 IF vendorID = 7531 /\ productID = 2 THEN "High (480 Mbps)"
                 ELSE IF vendorID = 7531 /\ productID = 3
                      THEN "Super (5 Gbps)"
                      ELSE "Unknown",
                 lsusbClass(names[2]))

\* ---------------------------------------- createDeviceFromSystemProfiler
parseHexID(hexStr) ==
    IF hexStr = <<>> THEN 0
    ELSE ParseNumber(TrimPrefix(hexStr, <<"0", "x">>), 16)

convertSystemProfilerSpeed(speed) ==
    IF Contains(speed, <<"l", "o", "w", "_", "s", "p", "e", "e", "d">>)
    THEN "Low (1.5 Mbps)"
    ELSE IF Contains(speed, <<"f", "u", "l", "l", "_", "s", "p", "e", "e", "d">>)
    THEN "Full (12 Mbps)"
    ELSE IF Contains(speed, <<"h", "i", "g", "h", "_", "s", "p", "e", "e", "d">>)
    THEN "High (480 Mbps)"
    ELSE IF Contains(speed, <<"s", "u", "p", "e", "r", "_", "s", "p", "e", "e", "d", "_", "5", "g", "b", "p", "s">>)
    THEN "Super (5 Gbps)"
    ELSE IF Contains(speed, <<"s", "u", "p", "e", "r", "_", "s", "p", "e", "e", "d", "_", "1", "0", "g", "b", "p", "s">>)
    THEN "Super+ (10 Gbps)"
    ELSE IF Contains(speed, <<"s", "u", "p", "e", "r", "_", "s", "p", "e", "e", "d">>)
    THEN "Super (5 Gbps)"
    ELSE IF speed # <<>> THEN speed ELSE "Unknown"

\* the Record of one item of the system_profiler document
systemProfilerRecord(item, busNumber) ==
    WithSerialPower(
      USBDevice(parseHexID(item.vendor_id), parseHexID(item.product_id),
                item.manufacturer, item.name, busNumber, 0, 0,
                convertSystemProfilerSpeed(item.device_speed),
                systemProfilerClass(item.name)),
      item.serial_num, item.current_required)

\* -------------------------------------------- the adapters on one device
MaxWords == 2

\* words of product names
ProductWords == {
    <<"H", "u", "b">>,
    <<"K", "e", "y", "b", "o", "a", "r", "d">>,
    <<"M", "o", "u", "s", "e">>,
    <<"T", "r", "a", "c", "k", "p", "a", "d">>,
    <<"C", "o", "n", "t", "r", "o", "l", "l", "e", "r">>,
    <<"C", "a", "m", "e", "r", "a">>,
    <<"A", "u", "d", "i", "o">>,
    <<"H", "e", "a", "d", "p", "h", "o", "n", "e">>,
    <<"H", "e", "a", "d", "s", "e", "t">>,
    <<"E", "t", "h", "e", "r", "n", "e", "t">>,
    <<"N", "e", "t", "w", "o", "r", "k">>,
    <<"B", "l", "u", "e", "t", "o", "o", "t", "h">>,
    <<"S", "t", "o", "r", "a", "g", "e">>,
    <<"D", "i", "s", "k">>,
    <<"A", "r", "c", "t", "i", "s">>,
    <<"A", "X", "8", "8", "1", "7", "9">>,
    <<"A", "X", "2", "0", "0">>,
    <<"J", "T", "A", "G">>,
    <<"S", "e", "r", "i", "a", "l">>,
    <<"F", "a", "c", "e", "T", "i", "m", "e">>,
    <<"S", "p", "e", "a", "k", "e", "r">>,
    <<"I", "n", "t", "e", "r", "n", "a", "l">>,
    <<"U", "S", "B">> }

\* what stands before the product name in a description
VendorParts == {
    <<>>,
    <<"L", "i", "n", "u", "x", " ", "F", "o", "u", "n", "d", "a", "t", "i", "o", "n">>,
    <<"A", "p", "p", "l", "e", " ", "I", "n", "c", ".">>,
    <<"I", "n", "t", "e", "l", " ", "C", "o", "r", "p", ".">>,
    <<"L", "o", "g", "i", "t", "e", "c", "h">> }

\* words[1] words[2] ... with one blank between two words
RECURSIVE JoinWords(_)
JoinWords(ws) ==
    IF ws = <<>> THEN <<>>
    ELSE IF Len(ws) = 1 THEN ws[1]
    ELSE ws[1] \o <<" ">> \o JoinWords(Tail(ws))

ProductNames ==
    {JoinWords(ws) : ws \in UNION {[1..n -> ProductWords] : n \in 0..MaxWords}}

\* the places and IDs of the devices described
DeviceIDs == {
    [bus |-> <<"0", "0", "1">>, device |-> <<"0", "0", "2">>, vid |-> <<"0", "5", "a", "c">>, pid |-> <<"0", "2", "7", "e">>],
    [bus |-> <<"0", "0", "2">>, device |-> <<"0", "0", "1">>, vid |-> <<"1", "d", "6", "b">>, pid |-> <<"0", "0", "0", "3">>],
    [bus |-> <<"0", "0", "1">>, device |-> <<"0", "1", "0">>, vid |-> <<"1", "d", "6", "b">>, pid |-> <<"0", "0", "0", "2">>] }

\* a device as both adapters get to see it
DescribedDevices ==
    [id : DeviceIDs, vendor : VendorParts, product : ProductNames]

\* the line lsusb prints for it
lsusbLine(d) ==
    [bus |-> d.id.bus, device |-> d.id.device, vid |-> d.id.vid,
     pid |-> d.id.pid,
     rest |-> <<" ">> \o JoinWords(SelectSeq(<<d.vendor, d.product>>,
                                             LAMBDA w : w # <<>>))]

\* the spUSBDevice system_profiler prints for it
spItem(d) ==
    [name |-> d.product, manufacturer |-> d.vendor,
     vendor_id |-> <<"0", "x">> \o d.id.vid,
     product_id |-> <<"0", "x">> \o d.id.pid,
     serial_num |-> "", current_required |-> "",
     device_speed |-> <<"h", "i", "g", "h", "_", "s", "p", "e", "e", "d">>]

\* GetDevices does not run
Idle ==
    /\ pc = "idle"
    /\ err = NoError
    /\ backends = <<>>
    /\ deviceMap = EmptyMap
    /\ rootDevices = EmptyMap
    /\ busNumbers = {}
    /\ todo = {}
    /\ devices = <<>>
    /\ nodes = EmptyMap
    /\ currentBusRoot = NoNode
    /\ parentStack = <<>>
    /\ linesRead = 0
    /\ dupLines = 0
    /\ result = <<>>
    /\ flat = NoFlat

AdapterInit ==
    /\ platform \in {"linux", "darwin"}
    /\ Idle
    /\ dev = EmptyMap
    /\ call = ""
    /\ input \in DescribedDevices
    /\ output = <<>>

\* the body of the loop over the lines of lsusb, on the line of the device
parseLsusbOutput_Line ==
    /\ platform = "linux"
    /\ call = ""
    /\ call' = "parseLsusbOutput"
    /\ output' = lsusbRecord(lsusbLine(input))
    /\ UNCHANGED <<detectorVars, input>>

\* createDeviceFromSystemProfiler on the item of the device
createDeviceFromSystemProfiler_Item ==
    /\ platform = "darwin"
    /\ call = ""
    /\ call' = "createDeviceFromSystemProfiler"
    /\ output' = systemProfilerRecord(spItem(input), 1)
    /\ UNCHANGED <<detectorVars, input>>

AdapterNext ==
    \/ parseLsusbOutput_Line
    \/ createDeviceFromSystemProfiler_Item

AdapterSpec == AdapterInit /\ [][AdapterNext]_vars

\* ------------------------------------------------- encoding/json, by the
\* tags of USBDevice.  A JSON object is a function from its keys to its
\* values; an array is a sequence.
RequiredKeys ==
    {"vendor_id", "product_id", "vendor_name", "product_name", "bus", "port",
     "address", "speed"}

\* Children tagged `json:"-"`: the children never reach the document
PresentOptionalKeys_NoChildren(d) ==
    {k \in {"serial", "class", "subclass", "protocol", "max_power"} :
       (CASE k = "serial" -> d.Serial
          [] k = "class" -> d.Class
          [] k = "subclass" -> d.SubClass
          [] k = "protocol" -> d.Protocol
          [] k = "max_power" -> d.MaxPower) # ""}

\* the keys tagged omitempty that d gets all the same
PresentOptionalKeys(d) ==
    {k \in {"serial", "class", "subclass", "protocol", "max_power"} :
       (CASE k = "serial" -> d.Serial
          [] k = "class" -> d.Class
          [] k = "subclass" -> d.SubClass
          [] k = "protocol" -> d.Protocol
          [] k = "max_power" -> d.MaxPower) # ""}
      \cup (IF Len(d.Children) > 0 THEN {"children"} ELSE {})

\* the object of d, whose children are encoded as kids
JsonObject(d, kids) ==
    [k \in RequiredKeys \cup PresentOptionalKeys(d) |->
       CASE k = "vendor_id" -> d.VendorID
         [] k = "product_id" -> d.ProductID
         [] k = "vendor_name" -> d.VendorName
         [] k = "product_name" -> d.ProductName
         [] k = "bus" -> d.Bus
         [] k = "port" -> d.Port
         [] k = "address" -> d.Address
         [] k = "serial" -> d.Serial
         [] k = "speed" -> d.Speed
         [] k = "class" -> d.Class
         [] k = "subclass" -> d.SubClass
         [] k = "protocol" -> d.Protocol
         [] k = "max_power" -> d.MaxPower
         [] k = "children" -> kids]

\* json.Marshal of the devices ds of heap h, `open` being the devices whose
\* encoding is in progress: [ok |-> TRUE, doc |-> the array], or
\* ok |-> FALSE when a pointer leads back into `open` (Marshal returns
\* "encountered a cycle" or overflows the stack)
RECURSIVE MarshalDevices(_, _, _)
MarshalDevices(h, ds, open) ==
    LET enc == [i \in DOMAIN ds |->
                  IF ds[i] \in open THEN [ok |-> FALSE, doc |-> <<>>]
                  ELSE MarshalDevices(h, h[ds[i]].Children,
                                      open \cup {ds[i]})]
    IN IF \E i \in DOMAIN ds : ~enc[i].ok
       THEN [ok |-> FALSE, doc |-> <<>>]
       ELSE [ok |-> TRUE,
             doc |-> [i \in DOMAIN ds |-> JsonObject(h[ds[i]], enc[i].doc)]]

Marshal(h, ds) == MarshalDevices(h, ds, {})

\* the value of key k of object o, or the zero value when o has no such key
JsonField(o, k, zero) == IF k \in DOMAIN o THEN o[k] ELSE zero

\* json.Unmarshal of an array of objects into []*USBDevice; the devices are
\* given by value, each with the devices of its Children
RECURSIVE Unmarshal(_)
Unmarshal(doc) ==
    [i \in DOMAIN doc |->
       [VendorID |-> JsonField(doc[i], "vendor_id", 0),
        ProductID |-> JsonField(doc[i], "product_id", 0),
        VendorName |-> JsonField(doc[i], "vendor_name", ""),
        ProductName |-> JsonField(doc[i], "product_name", ""),
        Bus |-> JsonField(doc[i], "bus", 0),
        Port |-> JsonField(doc[i], "port", 0),
        Address |-> JsonField(doc[i], "address", 0),
        Serial |-> JsonField(doc[i], "serial", ""),
        Speed |-> JsonField(doc[i], "speed", ""),
        Class |-> JsonField(doc[i], "class", ""),
        SubClass |-> JsonField(doc[i], "subclass", ""),
        Protocol |-> JsonField(doc[i], "protocol", ""),
        MaxPower |-> JsonField(doc[i], "max_power", ""),
        Children |-> Unmarshal(JsonField(doc[i], "children", <<>>))]]

\* --------------------------------------- the methods of USBDevice alone
MaxObjects == 3
MaxCalls == 3

\* the devices the methods are called on
Objects == 1..MaxObjects

\* the devices of the tests: with both names, with a vendor name only,
\* with no name, with a product name only
TestDevice(d) ==
    CASE d % 4 = 1 -> USBDevice(1452, 4660, "My Vendor", "My USB Device",
                                0, 0, 0, "", "")
      [] d % 4 = 2 -> USBDevice(43981, 61185, "My Vendor", "", 0, 0, 0, "", "")
      [] d % 4 = 3 -> USBDevice(0, 0, "", "", 0, 0, 0, "", "")
      [] OTHER -> USBDevice(4660, 22136, "", "Test Device", 0, 0, 0, "", "")

\* input: the AddChild calls made so far, <<receiver, argument>> each;
\* output: the receiver and the return value of the call made last
DeviceInit ==
    /\ platform = "linux"
    /\ Idle
    /\ dev = [d \in Objects |-> TestDevice(d)]
    /\ call = ""
    /\ input = <<>>
    /\ output = <<>>

USBDevice_AddChild ==
    /\ Len(input) < MaxCalls
    /\ \E d \in Objects, child \in Objects :
         /\ dev' = AddChild(dev, d, child)
         /\ input' = Append(input, <<d, child>>)
         /\ output' = [recv |-> d, ret |-> <<>>]
    /\ call' = "AddChild"
    /\ UNCHANGED <<platform, pc, err, backends, deviceMap, rootDevices,
                   busNumbers, todo, devices, nodes, currentBusRoot,
                   parentStack, linesRead, dupLines, result, flat>>

USBDevice_HasChildren ==
    /\ \E d \in Objects :
         output' = [recv |-> d, ret |-> HasChildren(dev, d)]
    /\ call' = "HasChildren"
    /\ UNCHANGED <<detectorVars, input>>

USBDevice_GetDisplayName ==
    /\ \E d \in Objects :
         output' = [recv |-> d, ret |-> GetDisplayName(dev[d])]
    /\ call' = "GetDisplayName"
    /\ UNCHANGED <<detectorVars, input>>

DeviceNext ==
    \/ USBDevice_AddChild
    \/ USBDevice_HasChildren
    \/ USBDevice_GetDisplayName

DeviceSpec == DeviceInit /\ [][DeviceNext]_vars

\* ------------------------------------------------------ internal/tree
\* a string built by Sprintf is the sequence of the pieces put together;
\* the box-drawing characters are written in ASCII: "+-- " and "|-- " are
\* the two connectors, "|   " is the vertical bar with three blanks, "|- "
\* and "+- " are the marks of the detail lines
HexDigits ==
    <<"0", "1", "2", "3", "4", "5", "6", "7", "8", "9",
      "a", "b", "c", "d", "e", "f">>

\* the last `width` digits of n to the base, zero-padded ("%04x")
RECURSIVE FormatPadded(_, _, _)
FormatPadded(n, base, width) ==
    IF width = 0 THEN <<>>
    ELSE FormatPadded(n \div base, base, width - 1)
           \o <<HexDigits[(n % base) + 1]>>

\* "%d" of a number that is not negative
RECURSIVE FormatDecimal(_)
FormatDecimal(n) ==
    IF n < 10 THEN <<HexDigits[n + 1]>>
    ELSE FormatDecimal(n \div 10) \o <<HexDigits[(n % 10) + 1]>>

\* fmt.Sprintf("%04x:%04x", d.VendorID, d.ProductID); the IDs are uint16
GetIDString(d) ==
    FormatPadded(d.VendorID, 16, 4) \o <<":">> \o FormatPadded(d.ProductID, 16, 4)

\* getDeviceString that prints the class whenever it is not empty
getDeviceString_AnyClass(d) ==
    IF d.Class # ""
    THEN <<GetDisplayName(d), " [">> \o GetIDString(d)
           \o <<"] (", d.Class, ")">>
    ELSE <<GetDisplayName(d), " [">> \o GetIDString(d) \o <<"]">>

getDeviceString(d) ==
    IF d.Class # "" /\ d.Class # "Device"
    THEN <<GetDisplayName(d), " [">> \o GetIDString(d)
           \o <<"] (", d.Class, ")">>
    ELSE <<GetDisplayName(d), " [">> \o GetIDString(d) \o <<"]">>

\* getDetailLines that puts the bus line first
getDetailLines_BusFirst(d, prefix) ==
    << prefix \o <<"+- Bus ">> \o FormatDecimal(d.Bus) \o <<", Port ">>
         \o FormatDecimal(d.Port) \o <<", Address ">>
         \o FormatDecimal(d.Address) >>
      \o (IF d.Serial # ""
          THEN << prefix \o <<"|- Serial: ", d.Serial>> >> ELSE <<>>)
      \o (IF d.Speed # "" /\ d.Speed # "Unknown"
          THEN << prefix \o <<"|- Speed: ", d.Speed>> >> ELSE <<>>)
      \o (IF d.MaxPower # ""
          THEN << prefix \o <<"|- Max Power: ", d.MaxPower>> >> ELSE <<>>)

getDetailLines(d, prefix) ==
    (IF d.Serial # ""
     THEN << prefix \o <<"|- Serial: ", d.Serial>> >> ELSE <<>>)
      \o (IF d.Speed # "" /\ d.Speed # "Unknown"
          THEN << prefix \o <<"|- Speed: ", d.Speed>> >> ELSE <<>>)
      \o (IF d.MaxPower # ""
          THEN << prefix \o <<"|- Max Power: ", d.MaxPower>> >> ELSE <<>>)
      \o << prefix \o <<"+- Bus ">> \o FormatDecimal(d.Bus) \o <<", Port ">>
              \o FormatDecimal(d.Port) \o <<", Address ">>
              \o FormatDecimal(d.Address) >>

\* the lines of the devices ds[i..] of one Children list (or of the
\* top-level list), each formatted by FormatDevice with the prefix
RECURSIVE FormatDevices(_, _, _, _, _)

\* FormatDevice that takes every device for a last one
FormatDevice_AlwaysLast(h, verbose, d, prefix, isLast) ==
    LET deviceLine == prefix \o <<"+-- ">> \o getDeviceString(h[d])
        detailPrefix == prefix \o <<"    ">>
        childPrefix == prefix \o <<"    ">>
    IN <<deviceLine>>
         \o (IF verbose THEN getDetailLines(h[d], detailPrefix) ELSE <<>>)
         \o FormatDevices(h, verbose, h[d].Children, childPrefix, 1)

FormatDevice(h, verbose, d, prefix, isLast) ==
    LET connector == IF isLast THEN "+-- " ELSE "|-- "
        deviceLine == prefix \o <<connector>> \o getDeviceString(h[d])
        detailPrefix == prefix \o <<IF isLast THEN "    " ELSE "|   ">>
        childPrefix == prefix \o <<IF isLast THEN "    " ELSE "|   ">>
    IN <<deviceLine>>
         \o (IF verbose THEN getDetailLines(h[d], detailPrefix) ELSE <<>>)
         \o FormatDevices(h, verbose, h[d].Children, childPrefix, 1)

FormatDevices(h, verbose, ds, prefix, i) ==
    IF i > Len(ds) THEN <<>>
    ELSE FormatDevice(h, verbose, ds[i], prefix, i = Len(ds))
           \o FormatDevices(h, verbose, ds, prefix, i + 1)

\* strings.Join(lines, "\n")
RECURSIVE Join(_)
Join(lines) ==
    IF lines = <<>> THEN <<>>
    ELSE IF Len(lines) = 1 THEN lines[1]
    ELSE lines[1] \o <<"\n">> \o Join(Tail(lines))

FormatTree(h, verbose, ds) ==
    IF Len(ds) = 0 THEN <<"No USB devices found">>
    ELSE Join(<< <<"USB Device Tree:">>, <<>> >>
                \o FormatDevices(h, verbose, ds, <<>>, 1))

\* ------------------------------------------------- the Formatter alone
MaxNodes == 3

\* the devices of the tests: all fields set; a vendor name only, class
\* "Device" and speed "Unknown"; nothing but a max power; a root hub
FormatterDevices == {
    WithSerialPower(
      USBDevice(1452, 4660, "Apple Inc.", "USB Keyboard", 1, 2, 3,
                "High (480 Mbps)", "HID"),
      "ABC123", "100mA"),
    USBDevice(1133, 50475, "Logitech", "", 1, 0, 12, "Unknown", "Device"),
    WithSerialPower(USBDevice(0, 0, "", "", 0, 0, 0, "", ""), "", "500mA"),
    USBDevice(7531, 2, "Linux Foundation", "2.0 root hub", 2, 0, 1,
              "Super (5 Gbps)", "Hub") }

\* the forests of n devices: a forest is the sequence of its trees, a tree
\* is its device and the forest of its children
RECURSIVE TestForests(_)
TestForests(n) ==
    IF n = 0 THEN {<<>>}
    ELSE UNION {{<<[device |-> d, kids |-> sub]>> \o rest :
                   d \in FormatterDevices,
                   sub \in TestForests(k),
                   rest \in TestForests(n - 1 - k)} : k \in 0..(n - 1)}

RECURSIVE ForestSize(_)
ForestSize(f) ==
    IF f = <<>> THEN 0
    ELSE 1 + ForestSize(Head(f).kids) + ForestSize(Tail(f))

\* the pointers to the trees of f, when its devices are allocated one after
\* the other from base + 1 on, each before its children
RECURSIVE Pointers(_, _)
Pointers(f, base) ==
    IF f = <<>> THEN <<>>
    ELSE <<base + 1>>
           \o Pointers(Tail(f), base + 1 + ForestSize(Head(f).kids))

\* the heap that holds f
RECURSIVE HeapOf(_, _)
HeapOf(f, base) ==
    IF f = <<>> THEN EmptyMap
    ELSE LET t == Head(f)
             id == base + 1
         IN (id :> [t.device EXCEPT !.Children = Pointers(t.kids, id)])
              @@ HeapOf(t.kids, id)
              @@ HeapOf(Tail(f), id + ForestSize(t.kids))

\* input: the Formatter (its verbose flag) and the devices passed to it
FormatterInit ==
    /\ platform = "linux"
    /\ Idle
    /\ \E n \in 0..MaxNodes : \E f \in TestForests(n) :
         /\ dev = HeapOf(f, 0)
         /\ \E v \in BOOLEAN :
              input = [verbose |-> v, devices |-> Pointers(f, 0)]
    /\ call = ""
    /\ output = <<>>

Formatter_FormatTree ==
    /\ call = ""
    /\ call' = "FormatTree"
    /\ output' = [ret |-> FormatTree(dev, input.verbose, input.devices)]
    /\ UNCHANGED <<detectorVars, input>>

\* FormatDevice called on a top-level device, as the tests do
Formatter_FormatDevice ==
    /\ call = ""
    /\ call' = "FormatDevice"
    /\ \E i \in DOMAIN input.devices, isLast \in BOOLEAN,
          prefix \in {<<>>, <<"    ">>, <<"|   ">>} :
         output' = [device |-> input.devices[i], prefix |-> prefix,
                    isLast |-> isLast,
                    ret |-> FormatDevice(dev, input.verbose,
                                         input.devices[i], prefix, isLast)]
    /\ UNCHANGED <<detectorVars, input>>

\* ------------------------------------------------------- the Printer
\* what the Printer writes to the standard output with colour disabled:
\* the pieces of text in the order of the Print calls, "\n" for the end of
\* a line

\* printDetails that starts the lines with the prefix of the device line
printDetails_OwnPrefix(d, prefix, isLast) ==
    (IF d.Serial # ""
     THEN prefix \o <<"|- Serial: ", d.Serial, "\n">> ELSE <<>>)
      \o (IF d.Speed # "" /\ d.Speed # "Unknown"
          THEN prefix \o <<"|- Speed: ", d.Speed, "\n">> ELSE <<>>)
      \o (IF d.MaxPower # ""
          THEN prefix \o <<"|- Max Power: ", d.MaxPower, "\n">>
          ELSE <<>>)
      \o prefix \o <<"+- ", "Bus ">> \o FormatDecimal(d.Bus)
      \o <<", Port ">> \o FormatDecimal(d.Port)
      \o <<", Address ">> \o FormatDecimal(d.Address) \o <<"\n">>

printDetails(d, prefix, isLast) ==
    LET detailPrefix == prefix \o <<IF isLast THEN "    " ELSE "|   ">>
    IN (IF d.Serial # ""
        THEN detailPrefix \o <<"|- Serial: ", d.Serial, "\n">> ELSE <<>>)
         \o (IF d.Speed # "" /\ d.Speed # "Unknown"
             THEN detailPrefix \o <<"|- Speed: ", d.Speed, "\n">> ELSE <<>>)
         \o (IF d.MaxPower # ""
             THEN detailPrefix \o <<"|- Max Power: ", d.MaxPower, "\n">>
             ELSE <<>>)
         \o detailPrefix \o <<"+- ", "Bus ">> \o FormatDecimal(d.Bus)
         \o <<", Port ">> \o FormatDecimal(d.Port)
         \o <<", Address ">> \o FormatDecimal(d.Address) \o <<"\n">>

\* the loop over ds[i..] of Print and of printDevice
RECURSIVE printDevices(_, _, _, _, _)

printDevice(h, verbose, d, prefix, isLast) ==
    LET connector == IF isLast THEN "+-- " ELSE "|-- "
        childPrefix == prefix \o <<IF isLast THEN "    " ELSE "|   ">>
    IN prefix \o <<connector, GetDisplayName(h[d]), " ", "[">>
         \o GetIDString(h[d]) \o <<"]">>
         \o (IF h[d].Class # "" /\ h[d].Class # "Device"
             THEN <<" ", "(", h[d].Class, ")">> ELSE <<>>)
         \o <<"\n">>
         \o (IF verbose THEN printDetails(h[d], prefix, isLast) ELSE <<>>)
         \o printDevices(h, verbose, h[d].Children, childPrefix, 1)

printDevices(h, verbose, ds, prefix, i) ==
    IF i > Len(ds) THEN <<>>
    ELSE printDevice(h, verbose, ds[i], prefix, i = Len(ds))
           \o printDevices(h, verbose, ds, prefix, i + 1)

printHeader == <<"USB Device Tree:", "\n", "\n">>

printNoDevices ==
    <<"No USB devices found", "\n",
      "\n", "Note: This tool requires libusb-1.0 to be installed.", "\n",
      "On macOS: brew install libusb", "\n",
      "On Linux: sudo apt-get install libusb-1.0-0 (or equivalent)", "\n">>

\* Printer.Print
PrintDevices(h, verbose, ds) ==
    IF Len(ds) = 0 THEN printNoDevices
    ELSE printHeader \o printDevices(h, verbose, ds, <<>>, 1)

\* NewPrinter(verbose).Print(devices)
Printer_Print ==
    /\ call = ""
    /\ call' = "Print"
    /\ output' = [ret |-> PrintDevices(dev, input.verbose, input.devices)]
    /\ UNCHANGED <<detectorVars, input>>

FormatterNext ==
    \/ Formatter_FormatTree
    \/ Formatter_FormatDevice
    \/ Printer_Print

FormatterSpec == FormatterInit /\ [][FormatterNext]_vars

\* --------------------------------------------- parseLsusbTree alone
\* input is the history of the lines read: for each line its kind, its
\* nesting level (a "/:" line is not indented), the "bus-dev" key of the
\* node made for it, and whether that node was stored in nodes

\* parseLsusbTree starts: libusb was refused, lsusb listed no device
ParserInit ==
    /\ platform = "linux"
    /\ pc = "tree"
    /\ err = NoError
    /\ backends = <<Called("libusb", LinuxLibusbError("bad access")),
                    Called("lsusb", NoError)>>
    /\ dev = EmptyMap
    /\ deviceMap = EmptyMap
    /\ rootDevices = EmptyMap
    /\ busNumbers = {}
    /\ todo = {}
    /\ devices = <<>>
    /\ nodes = EmptyMap
    /\ currentBusRoot = NoNode
    /\ parentStack = <<>>
    /\ linesRead = 0
    /\ dupLines = 0
    /\ result = <<>>
    /\ flat = NoFlat
    /\ call = "parseLsusbTree"
    /\ input = <<>>
    /\ output = <<>>

Parser_RootLine ==
    /\ \E line \in RootLines :
         /\ readRootLine(line)
         /\ input' = Append(input, [kind |-> "root", level |-> 0,
                                    key |-> <<line.bus, line.dev>>,
                                    stored |-> TRUE])
    /\ UNCHANGED <<call, output>>

Parser_ChildLine ==
    /\ \E line \in ChildLines :
         /\ readChildLine(line)
         /\ input' =
              Append(input,
                     IF currentBusRoot = NoNode
                     THEN [kind |-> "other", level |-> line.level,
                           key |-> NoNode, stored |-> FALSE]
                     ELSE [kind |-> "child", level |-> line.level,
                           key |-> <<currentBusRoot[1], line.dev>>,
                           stored |-> dupLines' = dupLines])
    /\ UNCHANGED <<call, output>>

Parser_OtherLine ==
    /\ skipLine
    /\ input' = Append(input, [kind |-> "other", level |-> 0,
                               key |-> NoNode, stored |-> FALSE])
    /\ UNCHANGED <<call, output>>

\* end of the output: parseLsusbTree returns nodes
Parser_Return ==
    /\ pc = "tree"
    /\ call = "parseLsusbTree"
    /\ call' = ""
    /\ output' = nodes
    /\ pc' = "idle"
    /\ UNCHANGED <<platform, err, backends, dev, deviceMap, rootDevices,
                   busNumbers, todo, devices, nodes, currentBusRoot,
                   parentStack, linesRead, dupLines, result, flat, input>>

ParserNext ==
    \/ Parser_RootLine
    \/ Parser_ChildLine
    \/ Parser_OtherLine
    \/ Parser_Return

ParserSpec == ParserInit /\ [][ParserNext]_vars

\* ------------------------------------ parseLsusbOutput on several lines
MaxFlatLines == 3

\* a line of lsusb is its text cut at the places the pattern
\* "Bus (\d{3}) Device (\d{3}): ID ([0-9a-f]{4}):([0-9a-f]{4})\s*(.*)$"
\* cuts it; form is "record" when the text has the words "Bus", "Device"
\* and "ID" and the colons of the pattern, "text" when it has not
lsusbText(form, bus, device, vid, pid, rest) ==
    [form |-> form, bus |-> bus, device |-> device, vid |-> vid,
     pid |-> pid, rest |-> rest]

\* lines the pattern matches
RecordLines == {
    lsusbText("record", <<"0", "0", "1">>, <<"0", "0", "1">>,
              <<"1", "d", "6", "b">>, <<"0", "0", "0", "2">>,
              <<" ">> \o KnownVendors[1] \o <<" ", "H", "u", "b">>),
    lsusbText("record", <<"0", "0", "1">>, <<"0", "0", "2">>,
              <<"0", "4", "6", "d">>, <<"c", "5", "2", "b">>,
              <<" ", "L", "o", "g", "i", "t", "e", "c", "h", " ",
                "M", "o", "u", "s", "e">>),
    lsusbText("record", <<"0", "0", "1">>, <<"0", "0", "2">>,
              <<"0", "5", "a", "c">>, <<"0", "2", "7", "e">>, <<>>),
    lsusbText("record", <<"0", "0", "2">>, <<"0", "0", "1">>,
              <<"1", "d", "6", "b">>, <<"0", "0", "0", "3">>,
              <<" ">> \o KnownVendors[1] \o <<" ", "H", "u", "b">>) }

\* lines the pattern does not match: the empty line, a message of lsusb,
\* a bus number of one digit, a vendor ID in capitals
OtherLines == {
    lsusbText("text", <<>>, <<>>, <<>>, <<>>, <<>>),
    lsusbText("text", <<>>, <<>>, <<>>, <<>>,
              <<"u", "n", "a", "b", "l", "e", " ", "t", "o", " ",
                "o", "p", "e", "n">>),
    lsusbText("record", <<"1">>, <<"0", "0", "2">>,
              <<"0", "4", "6", "d">>, <<"c", "5", "2", "b">>,
              <<" ", "M", "o", "u", "s", "e">>),
    lsusbText("record", <<"0", "0", "1">>, <<"0", "0", "3">>,
              <<"1", "D", "6", "B">>, <<"0", "0", "0", "2">>,
              <<" ", "H", "u", "b">>) }

\* s is n characters of the first `base` digits
IsDigitString(s, n, base) ==
    /\ Len(s) = n
    /\ \A i \in DOMAIN s : \E j \in 1..base : Digits[j] = s[i]

\* a pattern that takes a bus number of any length
FindStringSubmatch_AnyLength(line) ==
    /\ line.form = "record"
    /\ IsDigitString(line.bus, Len(line.bus), 10)
    /\ IsDigitString(line.device, 3, 10)
    /\ IsDigitString(line.vid, 4, 16)
    /\ IsDigitString(line.pid, 4, 16)

\* len(re.FindStringSubmatch(line)) >= 6
FindStringSubmatch(line) ==
    /\ line.form = "record"
    /\ IsDigitString(line.bus, 3, 10)
    /\ IsDigitString(line.device, 3, 10)
    /\ IsDigitString(line.vid, 4, 16)
    /\ IsDigitString(line.pid, 4, 16)

\* the loop over the lines, from line i on: deviceMap at its end
RECURSIVE parseLsusbLines(_, _, _)
parseLsusbLines(lines, i, dm) ==
    IF i > Len(lines) THEN dm
    ELSE IF ~FindStringSubmatch(lines[i])
         THEN parseLsusbLines(lines, i + 1, dm)
         ELSE LET usbDevice == lsusbRecord(lines[i])
              IN parseLsusbLines(lines, i + 1,
                                 Put(dm, <<usbDevice.Bus, usbDevice.Address>>,
                                     usbDevice))

\* input: the lines lsusb printed
FlatListInit ==
    /\ platform = "linux"
    /\ Idle
    /\ dev = EmptyMap
    /\ call = ""
    /\ \E n \in 0..MaxFlatLines :
         input \in [1..n -> RecordLines \cup OtherLines]
    /\ output = <<>>

\* parseLsusbOutput with lsusb running: the loop, then "Convert map to
\* slice" in the order the map is walked in
parseLsusbOutput_Lines ==
    /\ call = ""
    /\ call' = "parseLsusbOutput"
    /\ LET dm == parseLsusbLines(input, 1, EmptyMap)
       IN \E order \in Perms(DOMAIN dm) :
            output' = [deviceMap |-> dm,
                       result |-> [i \in 1..Len(order) |-> dm[order[i]]],
                       err |-> NoError]
    /\ UNCHANGED <<detectorVars, input>>

\* lsusb does not run
parseLsusbOutput_NoLsusb ==
    /\ call = ""
    /\ call' = "parseLsusbOutput"
    /\ output' = [deviceMap |-> EmptyMap, result |-> <<>>,
                  err |-> [msg |-> "failed to run lsusb", cause |-> "exec"]]
    /\ UNCHANGED <<detectorVars, input>>

FlatListNext ==
    \/ parseLsusbOutput_Lines
    \/ parseLsusbOutput_NoLsusb

FlatListSpec == FlatListInit /\ [][FlatListNext]_vars

\* ------------------------------- getDevicesViaSystemProfiler alone
\* input is the SPUSBDataType list system_profiler prints

\* getDevicesViaSystemProfiler is called: by the GetDevices that uses
\* system_profiler only, or by the one that tried libusb first
ProfilerInit ==
    /\ platform = "darwin"
    /\ pc = "system_profiler"
    /\ \E c \in LibusbErrors :
         \/ err = NoError /\ backends = <<>>
         \/ /\ err = DarwinLibusbError(c)
            /\ backends = <<Called("libusb", DarwinLibusbError(c))>>
    /\ dev = EmptyMap
    /\ deviceMap = EmptyMap
    /\ rootDevices = EmptyMap
    /\ busNumbers = {}
    /\ todo = {}
    /\ devices = <<>>
    /\ nodes = EmptyMap
    /\ currentBusRoot = NoNode
    /\ parentStack = <<>>
    /\ linesRead = 0
    /\ dupLines = 0
    /\ result = <<>>
    /\ flat = NoFlat
    /\ call = ""
    /\ input \in ControllerLists
    /\ output = <<>>

Profiler_Controllers ==
    /\ call = ""
    /\ readControllers(input)
    /\ call' = "getDevicesViaSystemProfiler"
    /\ UNCHANGED <<input, output>>

Profiler_Fails ==
    /\ call = ""
    /\ pc = "system_profiler"
    /\ err' = [msg |-> "failed to run system_profiler", cause |-> "exec"]
    /\ backends' = Append(backends, Called("system_profiler", err'))
    /\ pc' = "done"
    /\ call' = "getDevicesViaSystemProfiler"
    /\ UNCHANGED <<platform, dev, deviceMap, rootDevices, busNumbers,
                   todo, devices, nodes, currentBusRoot, parentStack,
                   linesRead, dupLines, result, flat, input, output>>

ProfilerNext ==
    \/ Profiler_Controllers
    \/ Profiler_Fails

ProfilerSpec == ProfilerInit /\ [][ProfilerNext]_vars

\* ------------------------------------------------------ forest shape
\* GetDevices has returned a forest (no error)
Produced == pc = "done" /\ err = NoError

\* the backend whose result GetDevices returns
Winner == backends[Len(backends)].name

\* the Reconstructor ran (organizeHierarchy or mergeHierarchy)
Reconstructed == Produced /\ flat # NoFlat

\* every object reachable from the objects of S along Children
RECURSIVE Reach(_)
Reach(S) ==
    LET T == S \cup UNION {Range(dev[d].Children) : d \in S}
    IN IF T = S THEN S ELSE Reach(T)

Descendants(d) == Reach(Range(dev[d].Children))

\* the places (parent, index) where d occurs as a child
Occurrences(d) ==
    {po \in UNION {{<<p, i>> : i \in DOMAIN dev[p].Children} : p \in DOMAIN dev} :
        dev[po[1]].Children[po[2]] = d}

\* ----------------------------------------------------------------- C1
\* C1: in every returned forest, every Record of a tree has the bus number
\* of the top-level root Record of that tree (no cross-bus attachment by
\* the port rule or by the hint rule).
C1_SameBusAsRoot ==
    Produced =>
      \A i \in DOMAIN result :
        \A d \in Reach({result[i]}) : dev[d].Bus = dev[result[i]].Bus

\* a forest built by the hint rule with a child under a root, while the
\* input holds a Record of another bus as well
C1_Witness ==
    /\ Produced
    /\ Winner = "lsusb"
    /\ \E i \in DOMAIN result :
         /\ HasChildren(dev, result[i])
         /\ \E d \in DOMAIN dev : dev[d].Bus # dev[result[i]].Bus

\* ----------------------------------------------------------------- C2
\* C2: in every returned forest each Record occurs in at most one Children
\* sequence and at most once in it, and no Record is a descendant of two
\* top-level roots; also when the tree text repeats a (bus, device).
C2_TreeNotDag ==
    Produced =>
      /\ \A d \in DOMAIN dev : Cardinality(Occurrences(d)) <= 1
      /\ \A i, j \in DOMAIN result :
           i # j => Descendants(result[i]) \cap Descendants(result[j]) = {}

\* the tree text repeated a (bus, device) and the Record of a hint node
\* with a parent was attached
C2_Witness ==
    /\ Produced
    /\ Winner = "lsusb"
    /\ dupLines > 0
    /\ \E k \in DOMAIN nodes \cap DOMAIN deviceMap :
         /\ nodes[k].parent \in DOMAIN deviceMap
         /\ Cardinality(Occurrences(deviceMap[k])) = 1

\* ----------------------------------------------------------------- C3
\* C3: the parent/child relation never contains a cycle: after
\* organizeHierarchy no Record is its own ancestor.
C3_NoCycle ==
    \A d \in DOMAIN dev : d \notin Descendants(d)

\* ----------------------------------------------------------------- C4
\* the Record an adapter built for the device at key k = <<bus, address>>
RecordAt(k) == <<k[1], k[2], "dev">>

\* the root hub getDevicesViaLibusb synthesized for bus b
RootOf(b) == <<b, 1, "root">>

IsChildOf(d, p) == d \in Range(dev[p].Children)

\* port rule: a Record whose port names an address without a Record on its
\* bus is a child of the bus's root hub
C4_PortOrphanUnderRoot ==
    (Produced /\ Winner = "libusb") =>
      \A d \in DOMAIN dev :
        (d[3] = "dev" /\ dev[d].Address # 1 /\ dev[d].Port > 1
           /\ RecordAt(<<dev[d].Bus, dev[d].Port>>) \notin DOMAIN dev)
          => IsChildOf(d, RootOf(dev[d].Bus))

\* hint rule: a Record whose hint node's parent has no Record is a child of
\* the Record at address 1 of its bus
C4_HintOrphanUnderRoot ==
    (Reconstructed /\ Winner = "lsusb") =>
      \A k \in DOMAIN nodes :
        (/\ RecordAt(k) \in DOMAIN dev
         /\ nodes[k].parent # NoNode
         /\ RecordAt(nodes[k].parent) \notin DOMAIN dev
         /\ RecordAt(<<k[1], 1>>) \in DOMAIN dev)
          => IsChildOf(RecordAt(k), RecordAt(<<k[1], 1>>))

\* C4: a Record whose parent cannot be resolved (port rule or hint rule) is
\* never dropped: it is attached as a child of its bus's root hub.
C4_OrphanUnderRoot == C4_PortOrphanUnderRoot /\ C4_HintOrphanUnderRoot

\* ----------------------------------------------------------------- C5
\* buses seen in the Records the adapter built or in the hint nodes
ObservedBuses ==
    {dev[d].Bus : d \in {x \in DOMAIN dev : x[3] = "dev"}}
      \cup {nodes[k].bus : k \in DOMAIN nodes}

HasRootEntry(b) ==
    \E i \in DOMAIN result :
      dev[result[i]].Bus = b /\ dev[result[i]].Address = 1

\* C5: for every bus observed in the flat Records or in the hint nodes the
\* returned forest has a root Record with that bus and address 1, on the
\* structured path and on the flat-text + tree-text path.
C5_RootPerObservedBus ==
    Reconstructed => \A b \in ObservedBuses : HasRootEntry(b)

\* ----------------------------------------------------------------- C6
\* C6: every sequence GetDevices returns has exactly one top-level entry
\* per bus and every top-level entry is the bus's root (address 1), also
\* when lsusb -t fails after lsusb succeeded.
C6_OneRootPerBus ==
    Produced =>
      /\ \A i, j \in DOMAIN result :
           i # j => dev[result[i]].Bus # dev[result[j]].Bus
      /\ \A i \in DOMAIN result : dev[result[i]].Address = 1
      /\ \A d \in DOMAIN dev : HasRootEntry(dev[d].Bus)

\* ----------------------------------------------------------------- C8
\* the display label of a speed token of lsusb -t
SpeedLabel(token) ==
    CASE token = "12M" -> "Full (12 Mbps)"
      [] token = "480M" -> "High (480 Mbps)"
      [] token = "5000M" -> "Super (5 Gbps)"

ParentByPort(d) ==
    IF dev[d].Port # 1 /\ RecordAt(<<dev[d].Bus, dev[d].Port>>) \in DOMAIN dev
    THEN RecordAt(<<dev[d].Bus, dev[d].Port>>)
    ELSE RootOf(dev[d].Bus)

\* C9: with no hints every Record (other than an address-1 Record, which is
\* a bus root) with a non-zero port is a child of the Record at (same bus,
\* address = port) when there is one and of the bus's root hub otherwise.
\* Instance: {bus 1, addr 1} and {bus 1, addr 2, port 1} give one tree, the
\* bus 1 root hub 1d6b:0002 with exactly one child, the addr 2 Record.
C9_PortRule ==
    (Produced /\ Winner = "libusb") =>
      /\ \A d \in DOMAIN dev :
           (d[3] = "dev" /\ dev[d].Address # 1 /\ dev[d].Port > 0)
             => IsChildOf(d, ParentByPort(d))
      /\ (/\ platform = "linux"
          /\ {d \in DOMAIN dev : d[3] = "dev"} = {<<1, 1, "dev">>, <<1, 2, "dev">>}
          /\ dev[<<1, 1, "dev">>].Port = 0
          /\ dev[<<1, 2, "dev">>].Port = 1)
           => /\ result = <<RootOf(1)>>
              /\ dev[RootOf(1)].VendorID = 7531
              /\ dev[RootOf(1)].ProductID = 2
              /\ dev[RootOf(1)].Children = << <<1, 2, "dev">> >>

\* one Record under the Record its port names and another, whose port
\* names no Record, under its bus's root hub
C9_Witness ==
    /\ Produced
    /\ Winner = "libusb"
    /\ \E d \in DOMAIN dev :
         /\ d[3] = "dev" /\ dev[d].Port > 1
         /\ ParentByPort(d) # RootOf(dev[d].Bus)
         /\ IsChildOf(d, ParentByPort(d))
    /\ \E d \in DOMAIN dev :
         /\ d[3] = "dev" /\ dev[d].Port > 1 /\ dev[d].Address # 1
         /\ ParentByPort(d) = RootOf(dev[d].Bus)
         /\ IsChildOf(d, RootOf(dev[d].Bus))

\* ----------------------------------------------------------------- C7
\* keys <<bus, n>> in ascending order
KeyLess(a, b) == a[1] < b[1] \/ (a[1] = b[1] /\ a[2] < b[2])

RECURSIVE SortKeys(_)
SortKeys(S) ==
    IF S = {} THEN <<>>
    ELSE LET m == CHOOSE x \in S : \A y \in S : x = y \/ KeyLess(x, y)
         IN <<m>> \o SortKeys(S \ {m})

RECURSIVE SortBuses(_)
SortBuses(S) ==
    IF S = {} THEN <<>>
    ELSE LET m == CHOOSE x \in S : \A y \in S : x <= y
         IN <<m>> \o SortBuses(S \ {m})

\* organizeHierarchy's loop run over the keys in the order ks[i..]
RECURSIVE organizeInOrder(_, _, _)
organizeInOrder(h, ks, i) ==
    IF i > Len(ks) THEN h
    ELSE organizeInOrder(organizeDevice(h, flat.deviceMap, flat.rootDevices, ks[i]),
                         ks, i + 1)

\* mergeHierarchy's second loop run over the keys in the order ks[i..]
RECURSIVE mergeInOrder(_, _, _)
mergeInOrder(h, ks, i) ==
    IF i > Len(ks) THEN h
    ELSE mergeInOrder(mergeNode(h, flat.deviceMap, nodes, ks[i]), ks, i + 1)

\* the forest of the run on the same Records and hints in which every map
\* is visited in ascending key order
AscendingRun ==
    LET buses == SortBuses(DOMAIN flat.rootDevices)
    IN [result |-> [i \in DOMAIN buses |-> flat.rootDevices[buses[i]]],
        dev |-> IF Winner = "libusb"
                THEN organizeInOrder(flat.dev, SortKeys(DOMAIN flat.deviceMap), 1)
                ELSE mergeInOrder(flat.dev, SortKeys(DOMAIN nodes), 1)]

\* how often x occurs in the sequence s
Count(s, x) == Cardinality({i \in DOMAIN s : s[i] = x})

SameMembers(s, t) ==
    /\ Len(s) = Len(t)
    /\ \A x \in Range(s) \cup Range(t) : Count(s, x) = Count(t, x)

PermissionClass(e) == e.msg = "permission denied" \/ e.cause = "bad access"

\* the Selector went on to a next backend only after a permission-class
\* failure, and returned every other failure of the first backend at once
SelectorSoftOnlyOnPermission ==
    /\ \A i \in DOMAIN backends :
         i < Len(backends) => PermissionClass(backends[i].err)
    /\ (pc = "done" /\ backends[1].err # NoError
          /\ ~PermissionClass(backends[1].err))
         => Len(backends) = 1 /\ err = backends[1].err

\* C10 as stated: on every platform the Selector falls through to the next
\* backend only on a permission/access-denied failure of the first backend
\* and returns every other failure at once without invoking the next one.
C10_SoftOnlyOnPermission == SelectorSoftOnlyOnPermission

\* C10 amended: the linux Selector falls through to lsusb only on a
\* permission/access-denied failure of libusb and returns every other
\* failure at once; the darwin Selector goes on to system_profiler after
\* every failure of libusb.
C10_LinuxSoftOnlyOnPermission ==
    /\ platform = "linux" => SelectorSoftOnlyOnPermission
    /\ (platform = "darwin" /\ pc = "done" /\ backends[1].err # NoError)
         => Len(backends) = 2 /\ backends[2].name = "system_profiler"

\* linux GetDevices returned the non-permission failure of libusb
C10_Witness ==
    /\ platform = "linux"
    /\ pc = "done"
    /\ Len(backends) = 1
    /\ backends[1].err # NoError
    /\ ~PermissionClass(backends[1].err)
    /\ err = backends[1].err

\* ---------------------------------------------------------------- C11
\* no backend built a Record, no hint line named a bus and system_profiler
\* listed no controller
ZeroBusesObserved ==
    /\ ObservedBuses = {}
    /\ {d \in DOMAIN dev : d[3] = "sp"} = {}

\* the forest is the two default root hubs: bus 1 and bus 2, address 1,
\* port 0, class Hub, no children
IsDefaultRoots(forest) ==
    /\ Len(forest) = 2
    /\ {dev[forest[i]].Bus : i \in DOMAIN forest} = {1, 2}
    /\ \A i \in DOMAIN forest :
         /\ dev[forest[i]].Address = 1
         /\ dev[forest[i]].Port = 0
         /\ dev[forest[i]].Class = "Hub"
         /\ dev[forest[i]].Children = <<>>

\* C11: whenever GetDevices has returned and zero buses were observed (the
\* winning backend returned zero Records, or no backend succeeded), it
\* returned no error and the forest is the default root hubs of bus 1 and
\* bus 2, never an empty forest or a hard error.
C11_DefaultRootsWhenNoBus ==
    (pc = "done" /\ ZeroBusesObserved)
      => /\ err = NoError
         /\ IsDefaultRoots(result)

\* ---------------------------------------------------------------- C12
\* the vendor names that are several words
MultiWordVendor(d) == Contains(d.vendor, <<" ">>)

\* Scenario B: Bus 001 Device 002: ID 05ac:027e Apple Inc. Internal Keyboard
ScenarioB ==
    [id |-> [bus |-> <<"0", "0", "1">>, device |-> <<"0", "0", "2">>, vid |-> <<"0", "5", "a", "c">>, pid |-> <<"0", "2", "7", "e">>],
     vendor |-> <<"A", "p", "p", "l", "e", " ", "I", "n", "c", ".">>,
     product |-> <<"I", "n", "t", "e", "r", "n", "a", "l", " ", "K", "e", "y", "b", "o", "a", "r", "d">>]

\* C12: the Record the flat-list adapter builds from the line of a device
\* whose description starts with a multi-word vendor name has the whole
\* vendor name as vendorName and the remainder as productName; with a
\* one-word vendor the first word is the vendorName and the rest the
\* productName; and the line of Scenario B yields bus 1, address 2,
\* vendorName "Apple Inc.", productName "Internal Keyboard", class "HID".
C12_VendorSplit ==
    call = "parseLsusbOutput" =>
      /\ input.vendor # <<>> =>
           /\ output.VendorName = input.vendor
           /\ output.ProductName = input.product
      /\ input = ScenarioB =>
           /\ output.Bus = 1
           /\ output.Address = 2
           /\ output.VendorName = <<"A", "p", "p", "l", "e", " ", "I", "n", "c", ".">>
           /\ output.ProductName = <<"I", "n", "t", "e", "r", "n", "a", "l", " ", "K", "e", "y", "b", "o", "a", "r", "d">>
           /\ output.Class = "HID"

\* ---------------------------------------------------------------- C13
\* the keyword list of the Classifier, in its order, each with its label
ClassifierList == <<
    [keyword |-> <<"h", "u", "b">>, label |-> "Hub"],
    [keyword |-> <<"k", "e", "y", "b", "o", "a", "r", "d">>, label |-> "HID"],
    [keyword |-> <<"m", "o", "u", "s", "e">>, label |-> "HID"],
    [keyword |-> <<"t", "r", "a", "c", "k", "p", "a", "d">>, label |-> "HID"],
    [keyword |-> <<"c", "o", "n", "t", "r", "o", "l", "l", "e", "r">>, label |-> "HID"],
    [keyword |-> <<"c", "a", "m", "e", "r", "a">>, label |-> "Video"],
    [keyword |-> <<"a", "u", "d", "i", "o">>, label |-> "Audio"],
    [keyword |-> <<"h", "e", "a", "d", "p", "h", "o", "n", "e">>, label |-> "Audio"],
    [keyword |-> <<"h", "e", "a", "d", "s", "e", "t">>, label |-> "Audio"],
    [keyword |-> <<"e", "t", "h", "e", "r", "n", "e", "t">>, label |-> "Communications"],
    [keyword |-> <<"n", "e", "t", "w", "o", "r", "k">>, label |-> "Communications"],
    [keyword |-> <<"b", "l", "u", "e", "t", "o", "o", "t", "h">>, label |-> "Wireless"],
    [keyword |-> <<"s", "t", "o", "r", "a", "g", "e">>, label |-> "Mass Storage"],
    [keyword |-> <<"d", "i", "s", "k">>, label |-> "Mass Storage"] >>

\* the label of the first keyword of the list that occurs in the name,
\* case-insensitively; "Device" when none occurs
ClassifierLabel(name) ==
    LET hits == {i \in DOMAIN ClassifierList :
                   Contains(ToLower(name), ClassifierList[i].keyword)}
    IN IF hits = {} THEN "Device"
       ELSE ClassifierList[CHOOSE i \in hits : \A j \in hits : i <= j].label

\* C13: the class of the Record either adapter builds is the label of the
\* first keyword, in the order hub; keyboard, mouse, trackpad, controller;
\* camera; audio, headphone, headset; ethernet, network; bluetooth; storage,
\* disk, that occurs case-insensitively in the Record's product name, and
\* "Device" when none occurs.
C13_OneKeywordList ==
    call \in {"parseLsusbOutput", "createDeviceFromSystemProfiler"} =>
      output.Class = ClassifierLabel(output.ProductName)

\* ---------------------------------------------------------------- C14
\* the devices ds of the heap by value, each with the devices of its Children
RECURSIVE ByValue(_)
ByValue(ds) ==
    [i \in DOMAIN ds |->
       [dev[ds[i]] EXCEPT !.Children = ByValue(dev[ds[i]].Children)]]

\* every object of the array doc, which encodes the devices ds, has the
\* always-present keys, and has each optional key exactly when the field of
\* its device is not empty
RECURSIVE PresenceAsClaimed(_, _)
PresenceAsClaimed(doc, ds) ==
    /\ Len(doc) = Len(ds)
    /\ \A i \in DOMAIN doc :
         LET o == doc[i]
             d == dev[ds[i]]
         IN /\ RequiredKeys \subseteq DOMAIN o
            /\ ("serial" \in DOMAIN o) = (d.Serial # "")
            /\ ("class" \in DOMAIN o) = (d.Class # "")
            /\ ("subclass" \in DOMAIN o) = (d.SubClass # "")
            /\ ("protocol" \in DOMAIN o) = (d.Protocol # "")
            /\ ("max_power" \in DOMAIN o) = (d.MaxPower # "")
            /\ ("children" \in DOMAIN o) = (d.Children # <<>>)
            /\ "children" \in DOMAIN o =>
                 PresenceAsClaimed(o["children"], d.Children)

\* C14: every forest GetDevices returns serializes to a JSON document, and
\* parsing the document back yields the same tree with the same value in
\* every field of every Record; in the document serial, class, subclass,
\* protocol, max_power and children are left out exactly when empty and the
\* other keys are always present.
C14_JsonRoundTrip ==
    Produced =>
      LET m == Marshal(dev, result)
      IN /\ m.ok
         /\ PresenceAsClaimed(m.doc, result)
         /\ Unmarshal(m.doc) = ByValue(result)

\* a returned forest with a root that has no serial number and a leaf
\* below it that has one
C14_Witness ==
    /\ Produced
    /\ \E i \in DOMAIN result :
         /\ dev[result[i]].Serial = ""
         /\ \E j \in DOMAIN dev[result[i]].Children :
              LET c == dev[dev[result[i]].Children[j]]
              IN c.Serial # "" /\ c.Children = <<>>

\* ---------------------------------------------------------------- C15
\* the arguments of the AddChild calls made on d, in call order
RECURSIVE ArgumentsOf(_, _)
ArgumentsOf(d, calls) ==
    IF calls = <<>> THEN <<>>
    ELSE IF Head(calls)[1] = d
    THEN <<Head(calls)[2]>> \o ArgumentsOf(d, Tail(calls))
    ELSE ArgumentsOf(d, Tail(calls))

\* C15: after any sequence of AddChild calls the Children of every device
\* is the sequence of the arguments of the calls made on it, in call
\* order, every other field of every device is as it was, and HasChildren
\* returns true exactly when at least one AddChild call was made on its
\* receiver.
C15_ChildrenAreAppended ==
    call \in {"AddChild", "HasChildren", "GetDisplayName"} =>
      /\ \A d \in Objects :
           /\ dev[d].Children = ArgumentsOf(d, input)
           /\ [dev[d] EXCEPT !.Children = <<>>] = TestDevice(d)
      /\ call = "HasChildren" =>
           output.ret = (ArgumentsOf(output.recv, input) # <<>>)

\* two different children were added to one device, and HasChildren was
\* asked of it
C15_Witness ==
    /\ call = "HasChildren"
    /\ output.ret
    /\ Len(dev[output.recv].Children) = 2
    /\ dev[output.recv].Children[1] # dev[output.recv].Children[2]

\* ---------------------------------------------------------------- C16
\* C16: GetDisplayName returns the product name when that is not empty,
\* otherwise the vendor name when that is not empty, otherwise "Unknown
\* Device"; it never returns the empty string, and the call leaves every
\* device as it was.
C16_DisplayName ==
    [][call' = "GetDisplayName" =>
         /\ dev' = dev
         /\ LET d == dev[output'.recv]
            IN /\ d.ProductName # "" => output'.ret = d.ProductName
               /\ (d.ProductName = "" /\ d.VendorName # "") =>
                    output'.ret = d.VendorName
               /\ (d.ProductName = "" /\ d.VendorName = "") =>
                    output'.ret = "Unknown Device"
               /\ output'.ret # ""]_vars

\* GetDisplayName was called on a device with a vendor name and no product
\* name
C16_Witness ==
    /\ call = "GetDisplayName"
    /\ dev[output.recv].ProductName = ""
    /\ dev[output.recv].VendorName # ""
    /\ output.ret = dev[output.recv].VendorName

\* ---------------------------------------------------------------- C17
\* the lines of a text: the pieces between one line break and the next
LinesOf(text) ==
    LET breaks == {i \in DOMAIN text : text[i] = "\n"}
        break(k) == CHOOSE i \in breaks :
                      Cardinality({j \in breaks : j < i}) = k - 1
        first(k) == IF k = 1 THEN 1 ELSE break(k - 1) + 1
        last(k) == IF k = Cardinality(breaks) + 1 THEN Len(text)
                   ELSE break(k) - 1
    IN [k \in 1..(Cardinality(breaks) + 1) |->
          SubSeq(text, first(k), last(k))]

Bar(isLast) == IF isLast THEN "    " ELSE "|   "

\* the places of the devices below ds[i..] in depth-first pre-order, each
\* with the prefix the claim gives it: the prefix of the parent followed
\* by the bar of the parent
RECURSIVE Places(_, _, _)
Places(ds, prefix, i) ==
    IF i > Len(ds) THEN <<>>
    ELSE <<[device |-> ds[i], prefix |-> prefix, isLast |-> i = Len(ds)]>>
           \o Places(dev[ds[i]].Children,
                          prefix \o <<Bar(i = Len(ds))>>, 1)
           \o Places(ds, prefix, i + 1)

\* the places of the devices the last call had to print
PrintedPlaces ==
    IF call = "FormatTree" THEN Places(input.devices, <<>>, 1)
    ELSE <<[device |-> output.device, prefix |-> output.prefix,
            isLast |-> output.isLast]>>
           \o Places(dev[output.device].Children,
                          output.prefix \o <<Bar(output.isLast)>>, 1)

\* the lines the last call produced for the devices (after the two header
\* lines, for FormatTree)
PrintedLines ==
    IF call = "FormatDevice" THEN output.ret
    ELSE LET all == LinesOf(output.ret)
         IN IF Len(all) < 3 THEN <<>> ELSE SubSeq(all, 3, Len(all))

IsDeviceLine(line) == \E i \in DOMAIN line : line[i] \in {"+-- ", "|-- "}

\* the number of the device a line belongs to: the device lines up to it
OwnerOf(lines, k) == Cardinality({j \in 1..k : IsDeviceLine(lines[j])})

StartsWith(line, prefix) ==
    /\ Len(line) >= Len(prefix)
    /\ SubSeq(line, 1, Len(prefix)) = prefix

\* C17: in the text a Formatter produces, the line of a device has the
\* connector of a last element exactly when the device is the last of its
\* parent's Children (or isLast was passed for it at top level) and the
\* other connector otherwise, and every line of a descendant of a device
\* starts with the device's prefix followed by four blanks when the device
\* is last and by the vertical bar and three blanks when it is not
C17_Connectors ==
    call \in {"FormatTree", "FormatDevice"} =>
      LET lines == PrintedLines
          occ == PrintedPlaces
      IN /\ OwnerOf(lines, Len(lines)) = Len(occ)
         /\ \A k \in DOMAIN lines :
              LET i == OwnerOf(lines, k)
              IN /\ i >= 1
                 /\ StartsWith(lines[k], occ[i].prefix)
                 /\ IsDeviceLine(lines[k]) =>
                      /\ Len(lines[k]) > Len(occ[i].prefix)
                      /\ lines[k][Len(occ[i].prefix) + 1] =
                           (IF occ[i].isLast THEN "+-- " ELSE "|-- ")

\* a verbose text of two trees, the first with a child
C17_Witness ==
    /\ call = "FormatTree"
    /\ input.verbose
    /\ Len(input.devices) = 2
    /\ dev[input.devices[1]].Children # <<>>

\* ---------------------------------------------------------------- C18
\* the display name by its rule: product name, else vendor name, else the
\* fixed text
NameAsClaimed(d) ==
    IF d.ProductName # "" THEN d.ProductName
    ELSE IF d.VendorName # "" THEN d.VendorName
    ELSE "Unknown Device"

\* the IDs of the devices of FormatterDevices as four hexadecimal digits,
\* a colon and four hexadecimal digits
IdAsClaimed(d) ==
    CASE d.VendorID = 1452 /\ d.ProductID = 4660 ->
           <<"0", "5", "a", "c", ":", "1", "2", "3", "4">>
      [] d.VendorID = 1133 /\ d.ProductID = 50475 ->
           <<"0", "4", "6", "d", ":", "c", "5", "2", "b">>
      [] d.VendorID = 7531 /\ d.ProductID = 2 ->
           <<"1", "d", "6", "b", ":", "0", "0", "0", "2">>
      [] d.VendorID = 0 /\ d.ProductID = 0 ->
           <<"0", "0", "0", "0", ":", "0", "0", "0", "0">>

\* name, ID in brackets, and the class in parentheses exactly when it is
\* not empty and not "Device"
DeviceTextAsClaimed(d) ==
    <<NameAsClaimed(d), " [">> \o IdAsClaimed(d)
      \o (IF d.Class \notin {"", "Device"} THEN <<"] (", d.Class, ")">>
          ELSE <<"]">>)

\* what follows the connector on a device line
AfterConnector(line) ==
    LET c == CHOOSE i \in DOMAIN line : line[i] \in {"+-- ", "|-- "}
    IN SubSeq(line, c + 1, Len(line))

\* C18: FormatTree returns exactly "No USB devices found" for an empty
\* device sequence; for a forest that is not empty it returns the header
\* "USB Device Tree:", an empty line, and then, when not verbose, exactly
\* one line per device in depth-first pre-order, each with the display
\* name, the ID in brackets and, exactly when the class is neither empty
\* nor "Device", the class in parentheses
C18_FormatTree ==
    call = "FormatTree" =>
      IF input.devices = <<>>
      THEN output.ret = <<"No USB devices found">>
      ELSE LET all == LinesOf(output.ret)
               occ == Places(input.devices, <<>>, 1)
           IN /\ Len(all) >= 2
              /\ all[1] = <<"USB Device Tree:">>
              /\ all[2] = <<>>
              /\ ~input.verbose =>
                   /\ Len(all) = 2 + Len(occ)
                   /\ \A i \in DOMAIN occ :
                        /\ IsDeviceLine(all[2 + i])
                        /\ AfterConnector(all[2 + i]) =
                             DeviceTextAsClaimed(dev[occ[i].device])

\* a text, not verbose, of a forest with a parent, with a device of class
\* "Device" and with a device of another class
C18_Witness ==
    /\ call = "FormatTree"
    /\ ~input.verbose
    /\ \E p, d, e \in DOMAIN dev :
         /\ dev[p].Children # <<>>
         /\ dev[d].Class = "Device"
         /\ dev[e].Class \notin {"", "Device"}

\* ---------------------------------------------------------------- C19
\* a line without the blanks and bars it starts with
Unindented(line) ==
    LET rest == {i \in DOMAIN line : line[i] \notin {"    ", "|   "}}
    IN IF rest = {} THEN <<>>
       ELSE SubSeq(line, CHOOSE i \in rest : \A j \in rest : i <= j,
                   Len(line))

\* the detail lines of a device in the order Serial, Speed, Max Power, bus
DetailsAsClaimed(d) ==
    (IF d.Serial # "" THEN << <<"|- Serial: ", d.Serial>> >> ELSE <<>>)
      \o (IF d.Speed \notin {"", "Unknown"}
          THEN << <<"|- Speed: ", d.Speed>> >> ELSE <<>>)
      \o (IF d.MaxPower # ""
          THEN << <<"|- Max Power: ", d.MaxPower>> >> ELSE <<>>)
      \o << <<"+- Bus ">> \o FormatDecimal(d.Bus) \o <<", Port ">>
              \o FormatDecimal(d.Port) \o <<", Address ">>
              \o FormatDecimal(d.Address) >>

\* the lines between the k-th device line and the next device line
LinesBelow(lines, k) ==
    LET own == {j \in DOMAIN lines :
                  OwnerOf(lines, j) = k /\ ~IsDeviceLine(lines[j])}
    IN [n \in 1..Cardinality(own) |->
          lines[CHOOSE j \in own :
                  Cardinality({i \in own : i < j}) = n - 1]]

\* C19: in verbose mode every device line is followed, before any child
\* line, by its detail lines in the order Serial (exactly when the serial
\* is not empty), Speed (exactly when the speed is neither empty nor
\* "Unknown"), Max Power (exactly when it is not empty) and the line of
\* bus, port and address, always there and always last; when not verbose
\* no detail line is produced
C19_DetailLines ==
    call \in {"FormatTree", "FormatDevice"} =>
      LET lines == PrintedLines
          occ == PrintedPlaces
      IN /\ OwnerOf(lines, Len(lines)) = Len(occ)
         /\ \A k \in DOMAIN occ :
              LET below == LinesBelow(lines, k)
              IN IF input.verbose
                 THEN [n \in DOMAIN below |-> Unindented(below[n])]
                        = DetailsAsClaimed(dev[occ[k].device])
                 ELSE below = <<>>
         /\ \A j \in DOMAIN lines : OwnerOf(lines, j) >= 1

\* a verbose text with a device that has serial, speed and max power above
\* a child, and a device of speed "Unknown" without a serial
C19_Witness ==
    /\ call = "FormatTree"
    /\ input.verbose
    /\ \E p, d \in DOMAIN dev :
         /\ dev[p].Children # <<>>
         /\ dev[p].Serial # "" /\ dev[p].MaxPower # ""
         /\ dev[p].Speed \notin {"", "Unknown"}
         /\ dev[d].Speed = "Unknown" /\ dev[d].Serial = ""

\* ---------------------------------------------------------------- C20
\* the lines of the history from the last "/:" line on
LinesOfBus(history) ==
    LET roots == {j \in DOMAIN history : history[j].kind = "root"}
    IN IF roots = {} THEN {}
       ELSE {j \in DOMAIN history : \A r \in roots : r <= j}

\* the nearest line before the last one, of its bus, at a lower level
\* (0 when there is none)
NearestShallower(history) ==
    LET n == Len(history)
        below == {j \in LinesOfBus(history) :
                    /\ j < n
                    /\ history[j].kind \in {"root", "child"}
                    /\ history[j].level < history[n].level}
    IN IF below = {} THEN 0
       ELSE CHOOSE j \in below : \A i \in below : i <= j

\* C20: the parent of the node of a child line at level L is the node of
\* the nearest preceding line of the same bus at a level below L, for every
\* sequence of lines, also after a line that repeats a (bus, device number)
\* already seen
C20_NearestShallowerParent ==
    [][(/\ Len(input') = Len(input) + 1
        /\ input'[Len(input')].kind = "child"
        /\ input'[Len(input')].stored)
       => LET line == input'[Len(input')]
              j == NearestShallower(input')
          IN IF j = 0 THEN nodes'[line.key].parent = NoNode
             ELSE /\ input'[j].stored
                  /\ nodes'[line.key].parent = input'[j].key]_vars

\* ---------------------------------------------------------------- C21
\* the hint nodes from which the second loop of mergeHierarchy makes an
\* edge: both the node and its parent have a Record
HintEdges ==
    {k \in DOMAIN nodes :
       /\ RecordAt(k) \in DOMAIN dev
       /\ nodes[k].parent # NoNode
       /\ RecordAt(nodes[k].parent) \in DOMAIN dev}

\* C21: when the flat Records are merged with a hint mapping that is empty
\* or yields no edge, no device is lost: every Record whose address is not
\* 1 is attached under the root hub of its bus in the returned forest.
\* Stated for the buses that have a Record with address 1.
C21_FallbackKeepsDevices ==
    (Reconstructed /\ Winner = "lsusb" /\ HintEdges = {}) =>
      \A d \in DOMAIN dev :
        (dev[d].Address # 1 /\ RecordAt(<<dev[d].Bus, 1>>) \in DOMAIN dev)
          => /\ IsChildOf(d, RecordAt(<<dev[d].Bus, 1>>))
             /\ RecordAt(<<dev[d].Bus, 1>>) \in Range(result)

\* ---------------------------------------------------------------- C22
\* C22: a root hub is synthesized for a bus only when the backend holds no
\* Record with address 1 on that bus; an address-1 Record the structured
\* backend discovered is the root of its bus in the output, with the
\* identity it was discovered with
C22_DiscoveredRootKept ==
    (Produced /\ Winner = "libusb") =>
      \A b \in Buses :
        RecordAt(<<b, 1>>) \in DOMAIN dev =>
          /\ RootOf(b) \notin DOMAIN dev
          /\ \E i \in DOMAIN result :
               /\ result[i] = RecordAt(<<b, 1>>)
               /\ dev[result[i]].ProductName = "xHCI Host Controller"

\* ---------------------------------------------------------------- C23
\* C23: a Record with address 1 is a bus root and is never a member of any
\* Record's Children, under the port rule and under the hint rule; hence
\* no top-level entry of a returned forest is a descendant of an entry
C23_RootIsNoChild ==
    Produced =>
      /\ \A d \in DOMAIN dev : dev[d].Address = 1 => Occurrences(d) = {}
      /\ \A i \in DOMAIN result :
           result[i] \notin Reach(UNION {Range(dev[result[j]].Children) :
                                           j \in DOMAIN result})

\* ---------------------------------------------------------------- C24
\* GetDevices went on to the text backend and returned what it returned
FellBackToText ==
    /\ Len(backends) = 2
    /\ backends[2].name = (IF platform = "linux" THEN "lsusb"
                           ELSE "system_profiler")
    /\ err = backends[2].err

\* C24 as stated: when the structured backend fails as unavailable (not
\* permission/access denied), the Selector falls back to the text backend
\* and returns its result; an error reaches the caller only when the text
\* backend cannot run either
C24_UnavailableFallsBack ==
    (pc = "done" /\ backends[1].err # NoError
       /\ ~PermissionClass(backends[1].err))
      => FellBackToText

\* C24 amended: the darwin Selector falls back to system_profiler after
\* every failure of libusb, the linux Selector falls back to lsusb after a
\* permission/access-denied failure of libusb; in both cases an error
\* reaches the caller only when the text backend cannot run either. The
\* linux Selector returns a failure of libusb of another kind to the
\* caller and does not run lsusb.
C24_FallbackPerPlatform ==
    (pc = "done" /\ backends[1].err # NoError) =>
      IF platform = "darwin" \/ PermissionClass(backends[1].err)
      THEN FellBackToText
      ELSE Len(backends) = 1 /\ err = backends[1].err

\* darwin: libusb failed as unavailable, system_profiler gave the forest
C24_Witness ==
    /\ platform = "darwin"
    /\ pc = "done"
    /\ Len(backends) = 2
    /\ ~PermissionClass(backends[1].err)
    /\ backends[1].err # NoError
    /\ err = NoError
    /\ result # <<>>

\* ---------------------------------------------------------------- C25
\* bus and address a line of RecordLines names
PlaceOf(line) == <<ParseNumber(line.bus, 10), ParseNumber(line.device, 10)>>

\* the Records of the matching lines: for each place the Record of the
\* last matching line that names it
RecordsOfMatching(lines) ==
    LET matching == {i \in DOMAIN lines : lines[i] \in RecordLines}
        last == {i \in matching :
                   \A j \in matching :
                     PlaceOf(lines[j]) = PlaceOf(lines[i]) => j <= i}
    IN {lsusbRecord(lines[i]) : i \in last}

IsRecordLine(line) == line \in RecordLines

\* C25: a line of lsusb that does not match the record pattern is skipped
\* without error and has no effect: the Records produced are those of the
\* matching lines alone, one per (bus, address), a later matching line
\* replacing an earlier one of the same bus and address
C25_NonMatchingSkipped ==
    (call = "parseLsusbOutput" /\ output.err = NoError) =>
      /\ Range(output.result) = RecordsOfMatching(input)
      /\ Range(output.result) =
           LET dm == parseLsusbLines(SelectSeq(input, IsRecordLine), 1,
                                     EmptyMap)
           IN {dm[k] : k \in DOMAIN dm}
      /\ \A i, j \in DOMAIN output.result :
           (/\ output.result[i].Bus = output.result[j].Bus
            /\ output.result[i].Address = output.result[j].Address)
             => i = j

\* two different matching lines for one place, and a line that does not
\* match
C25_Witness ==
    /\ call = "parseLsusbOutput"
    /\ output.err = NoError
    /\ \E i, j, k \in DOMAIN input :
         /\ i < j
         /\ input[i] \in RecordLines /\ input[j] \in RecordLines
         /\ input[i] # input[j]
         /\ PlaceOf(input[i]) = PlaceOf(input[j])
         /\ input[k] \in OtherLines

\* ---------------------------------------------------------------- C26
\* C26: every root hub Record of a returned forest has port 0, on every
\* backend path; merging the hints leaves the port of an address-1 Record
\* alone when the root line reads "Bus N.Port 001: Dev 001"
C26_RootPortZero ==
    Produced =>
      \A i \in DOMAIN result :
        dev[result[i]].Address = 1 => dev[result[i]].Port = 0

\* ---------------------------------------------------------------- C27
\* how often d occurs in the returned forest: as a top-level entry and in
\* the Children of an entry or of a descendant of an entry
TimesInForest(d) ==
    LET inForest == Range(result) \cup Reach(Range(result))
    IN Cardinality({i \in DOMAIN result : result[i] = d})
         + Cardinality({po \in Occurrences(d) : po[1] \in inForest})

\* C27: conservation of devices: every Record a backend adapter produced
\* (one per bus and address) occurs exactly once in the forest GetDevices
\* returns, as a top-level root or as a descendant of one. Stated for the
\* Records whose address is not 1.
C27_Conservation ==
    (Produced /\ Winner \in {"libusb", "lsusb"}) =>
      \A d \in DOMAIN dev :
        (d[3] = "dev" /\ dev[d].Address # 1) => TimesInForest(d) = 1

\* ---------------------------------------------------------------- C28
\* two texts are the same string when they are the same after the pieces
\* the Formatter writes in one and the Printer in several are cut alike
Cut(piece) ==
    CASE piece = " [" -> <<" ", "[">>
      [] piece = "] (" -> <<"]", " ", "(">>
      [] piece = "+- Bus " -> <<"+- ", "Bus ">>
      [] OTHER -> <<piece>>

RECURSIVE CutAll(_)
CutAll(line) ==
    IF line = <<>> THEN <<>> ELSE Cut(Head(line)) \o CutAll(Tail(line))

\* the lines written to a stream: each ends with a line break
WrittenLines(text) ==
    LET all == LinesOf(text)
    IN IF text # <<>> /\ text[Len(text)] = "\n"
       THEN SubSeq(all, 1, Len(all) - 1) ELSE all

\* C28: with colour disabled, for every forest that is not empty and for
\* both verbose settings, the lines Printer.Print writes are the lines of
\* Formatter.FormatTree for the same forest, in the same order
C28_PrintIsFormatTree ==
    (call = "Print" /\ input.devices # <<>>) =>
      LET written == WrittenLines(output.ret)
          formatted == LinesOf(FormatTree(dev, input.verbose, input.devices))
      IN /\ Len(written) = Len(formatted)
         /\ \A i \in DOMAIN written :
              CutAll(written[i]) = CutAll(formatted[i])

\* a verbose print of two trees, the first with a child, with a device
\* that has a serial number and a class and one of class "Device"
C28_Witness ==
    /\ call = "Print"
    /\ input.verbose
    /\ Len(input.devices) = 2
    /\ dev[input.devices[1]].Children # <<>>
    /\ \E d, e \in DOMAIN dev :
         /\ dev[d].Serial # "" /\ dev[d].Class \notin {"", "Device"}
         /\ dev[e].Class = "Device"

\* ---------------------------------------------------------------- C29
\* the nesting below d: the sequence of the nestings below its children
RECURSIVE ShapeOf(_)
ShapeOf(d) ==
    [i \in 1..Len(dev[d].Children) |-> ShapeOf(dev[d].Children[i])]

\* the number of entries of a list of controllers or of items, nested
\* ones included
RECURSIVE ItemCount(_)
ItemCount(items) ==
    IF Len(items) = 0 THEN 0
    ELSE 1 + ItemCount(Head(items)) + ItemCount(Tail(items))

\* C29: on the system_profiler path there is exactly one root per
\* controller, in controller order, with the bus numbers 1..n, address 1
\* and port 0, also for a controller without items; the tree below each
\* root has the shape of the controller's nested _items with the order of
\* siblings kept, one Record per item, and every descendant has the bus
\* number of its root
C29_MirrorsNesting ==
    (call = "getDevicesViaSystemProfiler" /\ err = NoError) =>
      /\ Len(result) = Len(input)
      /\ \A b \in DOMAIN result :
           /\ dev[result[b]].Bus = b
           /\ dev[result[b]].Address = 1
           /\ dev[result[b]].Port = 0
           /\ ShapeOf(result[b]) = input[b]
           /\ \A d \in Descendants(result[b]) : dev[d].Bus = b
      /\ Cardinality(Reach(Range(result))) = ItemCount(input)
      /\ \A i, j \in DOMAIN result : result[i] = result[j] => i = j

\* two controllers, the first without items, the second with an item that
\* has two nested items
C29_Witness ==
    /\ call = "getDevicesViaSystemProfiler"
    /\ err = NoError
    /\ Len(input) = 2
    /\ input[1] = <<>>
    /\ Len(input[2]) = 1
    /\ Len(input[2][1]) = 2
    /\ Len(result) = 2

\* ---------------------------------------------------------------- C30
\* C30: the vendor/product split of the flat-list adapter loses and
\* duplicates nothing: the description of the line, when not empty, is the
\* vendor name when the product name is empty, and vendor name, one blank,
\* product name otherwise -- also for a description that is a known vendor
\* name and nothing else
C30_SplitLosesNothing ==
    (call = "parseLsusbOutput" /\ TrimSpace(lsusbLine(input).rest) # <<>>) =>
      TrimSpace(lsusbLine(input).rest) =
        (IF output.ProductName = <<>> THEN output.VendorName
         ELSE output.VendorName \o <<" ">> \o output.ProductName)

====
